---- MODULE Spec2Model ----
(***************************************************************************)
(* Verification model of the Face-Rater scoring engine (the four-metric    *)
(* App of src/unnamed/part_001, lines 388-556), of the legacy linear-score *)
(* App (part_001, lines 1-387) and of the Electron main process            *)
(* (src/unnamed/part_000).                                                 *)
(*                                                                         *)
(* JavaScript numbers are modelled as decimal floating-point values with a *)
(* four-digit mantissa, round-to-nearest-even, plus the two special values *)
(* Infinity and NaN:                                                       *)
(*    [k |-> "fin", m |-> mantissa, e |-> exponent]   value m * 10^e       *)
(*    [k |-> "inf", m |-> sign,     e |-> 0]                               *)
(*    [k |-> "nan", m |-> 0,        e |-> 0]                               *)
(* A finite value is normalised: m = 0 and e = 0, or 1000 <= |m| <= 9999.  *)
(* The exponent is unbounded: the inputs of the model stay far inside the  *)
(* range of a double, so overflow to Infinity only arises from a division  *)
(* by zero; the underflow of Math.exp to 0 is modelled (see ExpNeg).       *)
(***************************************************************************)
EXTENDS Integers, Sequences, FiniteSets, TLC

VARIABLES
    LM,          \* the landmark registry (part_001, lines 394-402)
    sfeErr,      \* scoreFromError: the error of the first call
    sfeErr2,     \* scoreFromError: the error of the second call
    sfeTol,      \* scoreFromError: the tolerance of both calls
    sfePc,       \* "input" before the calls, "done" after them
    sfeRes,      \* outcome of the first call
    sfeRes2,     \* outcome of the second call
    wsMetrics,   \* weightedScore: the metrics argument
    wsWeights,   \* weightedScore: the weights argument
    wsPc,        \* "input" before the call, "done" after it
    wsRes,       \* outcome of the call
    landmarks,   \* the landmark set handed to computeMetrics
    moves,       \* landmark coordinates changed so far
    weights,     \* App's weights state (part_001, line 474)
    engPc,       \* "input" before computeMetrics/weightedScore, "done" after
    metrics,     \* outcome of computeMetrics
    score,       \* outcome of weightedScore
    appMetrics,  \* App's metrics state (part_001, line 472)
    appScore,    \* App's score state (part_001, line 473)
    calls,       \* engine calls made so far
    seen,        \* history: inputs and outcomes of the first engine call
    mpPoints,    \* meanPoint: the points argument
    mpPc,        \* "input" before the call, "done" after it
    mpRes,       \* outcome of the call
    lkName,      \* registry lookup: the feature name
    lkPc,        \* "input" before the lookup, "done" after the read
    lkIdx,       \* outcome of the lookup LM[name]
    lkRes,       \* outcome of reading the landmark set with it
    lgKeypoints, \* legacy calculateFacialMetrics: the keypoints argument
    lgMerges,    \* keypoints put onto another keypoint so far
    lgPc,        \* "input" before the call, "done" after it
    lgRes,       \* outcome of the call
    model,       \* App's model state is set (part_001, line 469)
    loading,     \* App's loading state (line 470)
    imgSrc,      \* App's imgSrc state (line 471): 0 for null, else the image chosen
    files,       \* images chosen so far
    flight,      \* the image of the estimateFaces call in flight, 0 for none
    shownImg,    \* history: the image whose analysis set metrics and score, 0 for none
    isModelLoaded,  \* legacy App state (part_001, line 7)
    isAnalyzing,    \* legacy App state (line 8)
    analysisResult, \* legacy App state (line 9)
    selectedImage,  \* legacy App state (line 10): 0 for null, else the image read
    errorMessage,   \* legacy App state (line 11)
    detector,       \* legacy App state (line 12) is set
    modelPc,        \* loadModel: "loading", "loaded" or "failed"
    picked,         \* image files picked so far
    reading,        \* the images whose FileReader has not fired onload yet
    imgLoaded,      \* the img element has fired onLoad for selectedImage
    flights,        \* the images with a detector.estimateFaces call in flight
    ipcChannel,  \* main process: the channel of the ipcMain.handle invocation
    ipcData,     \* the data argument of the invocation
    ipcFormat,   \* the format argument of the invocation
    ipcPc,       \* "called", "dialog", "file" or "settled"
    ipcResult,   \* how the handler's promise settled
    ipcDialog,   \* history: how the dialog settled, "none" before
    ipcRaised,   \* history: the message of the error raised, "" for none
    ipcDisk,     \* history: "done" once the file write or read has completed
    ipcCalls,    \* invocations made so far
    platform,    \* process.platform is "darwin" or another platform
    mainWindow,  \* part_000, line 263: "undefined", "window" or "null"
    winShown,    \* the window has been shown
    winMinimized, \* the window is minimized
    winMaximized, \* the window is maximized
    winFocused,  \* the window has the focus
    appQuit,     \* app.quit() has been called
    lastEvent,   \* the event or message handled last
    lastOutcome  \* "ok", or "TypeError" when the handler threw

vars == << LM, sfeErr, sfeErr2, sfeTol, sfePc, sfeRes, sfeRes2,
           wsMetrics, wsWeights, wsPc, wsRes,
           landmarks, moves, weights, engPc, metrics, score,
           appMetrics, appScore, calls, seen,
           mpPoints, mpPc, mpRes, lkName, lkPc, lkIdx, lkRes,
           lgKeypoints, lgMerges, lgPc, lgRes,
           model, loading, imgSrc, files, flight, shownImg,
           isModelLoaded, isAnalyzing, analysisResult, selectedImage, errorMessage,
           detector, modelPc, picked, reading, imgLoaded, flights,
           ipcChannel, ipcData, ipcFormat, ipcPc, ipcResult, ipcDialog, ipcRaised, ipcDisk,
           ipcCalls,
           platform, mainWindow, winShown, winMinimized, winMaximized, winFocused,
           appQuit, lastEvent, lastOutcome >>

lgVars == << lgKeypoints, lgMerges, lgPc, lgRes >>

uiVars == << model, loading, imgSrc, files, flight, shownImg >>

legacyVars ==
    << isModelLoaded, isAnalyzing, analysisResult, selectedImage, errorMessage,
       detector, modelPc, picked, reading, imgLoaded, flights >>

ipcVars ==
    << ipcChannel, ipcData, ipcFormat, ipcPc, ipcResult, ipcDialog, ipcRaised, ipcDisk,
       ipcCalls >>

winVars ==
    << platform, mainWindow, winShown, winMinimized, winMaximized, winFocused,
       appQuit, lastEvent, lastOutcome >>

\* The state outside the four-metric engine.
extVars == << lgVars, uiVars, legacyVars, ipcVars, winVars >>


\* The state of the four-metric engine and of its function-level checks.
coreVars == << LM, sfeErr, sfeErr2, sfeTol, sfePc, sfeRes, sfeRes2,
               wsMetrics, wsWeights, wsPc, wsRes,
               landmarks, moves, weights, engPc, metrics, score,
               appMetrics, appScore, calls, seen,
               mpPoints, mpPc, mpRes, lkName, lkPc, lkIdx, lkRes >>

\* The state outside the main process's window handling.
rendererVars == << coreVars, lgVars, uiVars, legacyVars, ipcVars >>

appVars == << appMetrics, appScore, calls, seen >>

mpVars == << mpPoints, mpPc, mpRes >>

lkVars == << lkName, lkPc, lkIdx, lkRes >>

sfeVars == << sfeErr, sfeErr2, sfeTol, sfePc, sfeRes, sfeRes2 >>

wsVars == << wsMetrics, wsWeights, wsPc, wsRes >>

engVars == << landmarks, moves, weights, engPc, metrics, score >>

\* ------------------------------------------------------------------------
\* Floating-point layer
\* ------------------------------------------------------------------------

\* Every operator of this layer evaluates each operand once: the operand is
\* bound by a singleton set, `CHOOSE r \in { f(a) : a \in {x} } : TRUE`.

Abs(n) == IF n < 0 THEN -n ELSE n

Sign(n) == IF n < 0 THEN -1 ELSE IF n = 0 THEN 0 ELSE 1

\* 10^n for 0 <= n <= 9.
Pow10(n) ==
    CASE n <= 0 -> 1
      [] n = 1 -> 10
      [] n = 2 -> 100
      [] n = 3 -> 1000
      [] n = 4 -> 10000
      [] n = 5 -> 100000
      [] n = 6 -> 1000000
      [] n = 7 -> 10000000
      [] n = 8 -> 100000000
      [] OTHER -> 1000000000

\* The number of decimal digits of a, for 0 <= a < 2^31.
NumDigits(a) ==
    IF a < 10000
    THEN (IF a < 100 THEN (IF a < 10 THEN 1 ELSE 2) ELSE (IF a < 1000 THEN 3 ELSE 4))
    ELSE IF a < 1000000 THEN (IF a < 100000 THEN 5 ELSE 6)
    ELSE IF a < 100000000 THEN (IF a < 10000000 THEN 7 ELSE 8)
    ELSE IF a < 1000000000 THEN 9 ELSE 10

NaN == [k |-> "nan", m |-> 0, e |-> 0]

Inf(s) == [k |-> "inf", m |-> s, e |-> 0]

Zero == [k |-> "fin", m |-> 0, e |-> 0]

IsNaN(x) == x.k = "nan"

IsFinite(x) == x.k = "fin"

IsZero(x) == x.k = "fin" /\ x.m = 0

\* n * 10^e rounded to four significant digits, ties to even.
Norm(n, e) ==
    CHOOSE res \in
      { IF n0 = 0 THEN Zero
        ELSE IF d <= 4
             THEN [k |-> "fin", m |-> n0 * Pow10(4 - d), e |-> e0 - (4 - d)]
             ELSE CHOOSE r2 \in
                    { IF q1 = 10000
                      THEN [k |-> "fin", m |-> Sign(n0) * 1000, e |-> e0 + (d - 4) + 1]
                      ELSE [k |-> "fin", m |-> Sign(n0) * q1, e |-> e0 + (d - 4)]
                      : q1 \in { (Abs(n0) \div p)
                                 + (IF \/ 2 * (Abs(n0) % p) > p
                                       \/ (2 * (Abs(n0) % p) = p /\ (Abs(n0) \div p) % 2 = 1)
                                    THEN 1 ELSE 0)
                                 : p \in { Pow10(d - 4) } } } : TRUE
        : n0 \in {n}, e0 \in {e}, d \in { NumDigits(Abs(n)) } } : TRUE

\* The number literal n * 10^e of the source.
Num(n, e) == Norm(n, e)

Neg(x) == CHOOSE res \in { IF a.k = "nan" THEN NaN ELSE [a EXCEPT !.m = -a.m] : a \in {x} } : TRUE

\* Math.abs
MathAbs(x) ==
    CHOOSE res \in { IF a.k = "nan" THEN NaN ELSE [a EXCEPT !.m = Abs(a.m)] : a \in {x} } : TRUE

\* x * y
Mul(x, y) ==
    CHOOSE res \in
      { IF a.k = "nan" \/ b.k = "nan" THEN NaN
        ELSE IF a.k = "inf" \/ b.k = "inf"
             THEN IF a.m = 0 \/ b.m = 0 THEN NaN ELSE Inf(Sign(a.m) * Sign(b.m))
             ELSE Norm(a.m * b.m, a.e + b.e)
        : a \in {x}, b \in {y} } : TRUE

\* x / y (a zero divisor is +0)
Div(x, y) ==
    CHOOSE res \in
      { IF a.k = "nan" \/ b.k = "nan" THEN NaN
        ELSE IF a.k = "inf"
             THEN IF b.k = "inf" THEN NaN
                  ELSE Inf(a.m * (IF b.m < 0 THEN -1 ELSE 1))
             ELSE IF b.k = "inf" THEN Zero
             ELSE IF b.m = 0
                  THEN IF a.m = 0 THEN NaN ELSE Inf(Sign(a.m))
                  ELSE Norm(Sign(a.m) * Sign(b.m)
                              * ((((Abs(a.m) * 100000) \div Abs(b.m)) * 10)
                                 + (IF (Abs(a.m) * 100000) % Abs(b.m) = 0 THEN 0 ELSE 1)),
                            a.e - b.e - 6)
        : a \in {x}, b \in {y} } : TRUE

\* x + y
Add(x, y) ==
    CHOOSE res \in
      { IF a.k = "nan" \/ b.k = "nan" THEN NaN
        ELSE IF a.k = "inf"
             THEN IF b.k = "inf" /\ b.m # a.m THEN NaN ELSE a
             ELSE IF b.k = "inf" THEN b
             ELSE IF a.m = 0 THEN b
             ELSE IF b.m = 0 THEN a
             ELSE IF a.e >= b.e
                  THEN IF a.e - b.e > 5 THEN a
                       ELSE Norm(a.m * Pow10(a.e - b.e) + b.m, b.e)
                  ELSE IF b.e - a.e > 5 THEN b
                       ELSE Norm(b.m * Pow10(b.e - a.e) + a.m, a.e)
        : a \in {x}, b \in {y} } : TRUE

Sub(x, y) == Add(x, Neg(y))

\* x < y; false when either is NaN.
Lt(x, y) ==
    \E a \in {x}, b \in {y} :
       IF a.k = "nan" \/ b.k = "nan" THEN FALSE
       ELSE IF a.k = "inf" THEN a.m < 0 /\ ~(b.k = "inf" /\ b.m < 0)
       ELSE IF b.k = "inf" THEN b.m > 0
       ELSE IF Sign(a.m) # Sign(b.m) THEN Sign(a.m) < Sign(b.m)
       ELSE IF a.m = 0 THEN FALSE
       ELSE IF a.m > 0 THEN a.e < b.e \/ (a.e = b.e /\ a.m < b.m)
       ELSE a.e > b.e \/ (a.e = b.e /\ a.m < b.m)

\* x <= y; false when either is NaN.
Le(x, y) == \E a \in {x}, b \in {y} : a.k # "nan" /\ b.k # "nan" /\ ~Lt(b, a)

\* Math.min and Math.max: NaN when either argument is NaN.
MathMin(x, y) ==
    CHOOSE res \in
      { IF a.k = "nan" \/ b.k = "nan" THEN NaN ELSE IF Lt(b, a) THEN b ELSE a
        : a \in {x}, b \in {y} } : TRUE

MathMax(x, y) ==
    CHOOSE res \in
      { IF a.k = "nan" \/ b.k = "nan" THEN NaN ELSE IF Lt(a, b) THEN b ELSE a
        : a \in {x}, b \in {y} } : TRUE

RECURSIVE IsqrtIn(_, _, _)
IsqrtIn(n, lo, hi) ==
    CHOOSE res \in
      { IF l >= h THEN l
        ELSE IF mid * mid <= n THEN IsqrtIn(n, mid, h) ELSE IsqrtIn(n, l, mid - 1)
        : l \in {lo}, h \in {hi}, mid \in { (lo + hi + 1) \div 2 } } : TRUE

\* The largest s with s * s <= n, for 0 <= n < 2^31.
Isqrt(n) == IsqrtIn(n, 0, 46340)

\* Math.sqrt, correctly rounded.
Sqrt(x) ==
    CHOOSE res \in
      { IF a.k = "nan" THEN NaN
        ELSE IF a.m < 0 THEN NaN
        ELSE IF a.k = "inf" THEN a
        ELSE IF a.m = 0 THEN Zero
        ELSE CHOOSE r2 \in
               { IF s < 10000
                 THEN Norm(IF n > s * s + s THEN s + 1 ELSE s, ex \div 2)
                 ELSE Norm(s * 10 + (IF s * s = n THEN 0 ELSE 1), (ex \div 2) - 1)
                 : n \in { (IF a.e % 2 # 0 THEN a.m * 10 ELSE a.m) * 10000 },
                   ex \in { (IF a.e % 2 # 0 THEN a.e - 1 ELSE a.e) - 4 },
                   s \in { Isqrt((IF a.e % 2 # 0 THEN a.m * 10 ELSE a.m) * 10000) } } : TRUE
        : a \in {x} } : TRUE

\* Math.hypot(x, y)
Hypot(x, y) ==
    CHOOSE res \in { Sqrt(Add(Mul(a, a), Mul(b, b))) : a \in {x}, b \in {y} } : TRUE

\* 10^(4 - j/64) for j = 0..64, rounded: the table behind ExpNeg.
ExpTable ==
    << 10000, 9647, 9306, 8977, 8660, 8354, 8058, 7774, 7499, 7234, 6978, 6732,
       6494, 6264, 6043, 5829, 5623, 5425, 5233, 5048, 4870, 4698, 4532, 4371,
       4217, 4068, 3924, 3786, 3652, 3523, 3398, 3278, 3162, 3051, 2943, 2839,
       2738, 2642, 2548, 2458, 2371, 2288, 2207, 2129, 2054, 1981, 1911, 1843,
       1778, 1715, 1655, 1596, 1540, 1486, 1433, 1382, 1334, 1286, 1241, 1197,
       1155, 1114, 1075, 1037, 1000 >>

\* 10^(-u) for a finite u = m * 10^e with 0 < u < 324 and e > -9: the integer
\* part of u goes into the exponent, 10^(-frac(u)) is read from ExpTable with
\* linear interpolation between its entries.
Pow10Neg(u) ==
    CHOOSE res \in
      { Norm(ExpTable[(F \div 100) + 1]
               - ((ExpTable[(F \div 100) + 1] - ExpTable[(F \div 100) + 2]) * (F % 100)) \div 100,
             -4 - (u.m \div D))
        : F \in { ((u.m % Pow10(-u.e)) * 6400) \div Pow10(-u.e) }, D \in { Pow10(-u.e) } } : TRUE

\* e^(-t) for a finite t >= 0, as 10^(-t * log10(e)). Math.exp underflows to 0
\* below e^(-745.13).
ExpNeg(t) ==
    CHOOSE res \in
      { IF ~Lt(a, Num(746, 0)) THEN Zero
        ELSE IF u.m = 0 \/ u.e <= -9 THEN Num(1, 0)
        ELSE Pow10Neg(u)
        : a \in {t}, u \in { Mul(t, Num(4343, -4)) } } : TRUE

\* Math.exp
Exp(x) ==
    CHOOSE res \in
      { IF a.k = "nan" THEN NaN
        ELSE IF a.k = "inf" THEN (IF a.m > 0 THEN a ELSE Zero)
        ELSE IF a.m <= 0 THEN ExpNeg(MathAbs(a))
        ELSE Div(Num(1, 0), ExpNeg(a))
        : a \in {x} } : TRUE

\* `x || d`: d when x is falsy (0 or NaN).
OrElse(x, d) ==
    CHOOSE res \in
      { IF a.k = "nan" \/ (a.k = "fin" /\ a.m = 0) THEN d ELSE a : a \in {x} } : TRUE

\* ------------------------------------------------------------------------
\* Utility functions (part_001, lines 404-409)
\* ------------------------------------------------------------------------

\* clamp with the two bounds exchanged.
clampSwapped(v, a, b) == MathMin(a, MathMax(b, v))

\* function clamp(v, a, b) { return Math.max(a, Math.min(b, v)); }
clamp(v, a, b) == MathMax(a, MathMin(b, v))

\* scoreFromError with neither the error nor the tolerance squared.
scoreFromErrorNoSquare(err, tolerance) ==
    CHOOSE res \in
      { clamp(Mul(Num(100, 0), Exp(Div(Neg(e0), Mul(Num(2, 0), t0)))), Zero, Num(100, 0))
        : e0 \in {err}, t0 \in {tolerance} } : TRUE

\* scoreFromError with the tolerance not squared.
scoreFromErrorLinearTolerance(err, tolerance) ==
    CHOOSE res \in
      { clamp(Mul(Num(100, 0), Exp(Div(Neg(Mul(e0, e0)), Mul(Num(2, 0), t0)))),
              Zero, Num(100, 0))
        : e0 \in {err}, t0 \in {tolerance} } : TRUE

\* function scoreFromError(err, tolerance) {
\*   return clamp(100 * Math.exp(-(err * err) / (2 * tolerance * tolerance)), 0, 100); }
scoreFromError(err, tolerance) ==
    CHOOSE res \in
      { clamp(Mul(Num(100, 0), Exp(Div(Neg(Mul(e0, e0)), Mul(Mul(Num(2, 0), t0), t0)))),
              Zero, Num(100, 0))
        : e0 \in {err}, t0 \in {tolerance} } : TRUE

\* function dist(a, b) { return Math.hypot(a[0] - b[0], a[1] - b[1]); }
dist(a, b) ==
    CHOOSE res \in { Hypot(Sub(p[1], q[1]), Sub(p[2], q[2])) : p \in {a}, q \in {b} } : TRUE

RECURSIVE SumPoints(_, _, _)
SumPoints(points, i, acc) ==
    CHOOSE res \in
      { IF i > Len(points) THEN s
        ELSE SumPoints(points, i + 1, << Add(s[1], points[i][1]), Add(s[2], points[i][2]) >>)
        : s \in {acc} } : TRUE

\* meanPoint returning the sum of the points, not divided by their number.
meanPointNoDivision(points) == SumPoints(points, 1, << Zero, Zero >>)

\* function meanPoint(points) { n = points.length; s = points.reduce(..., [0, 0]);
\*   return [s[0] / n, s[1] / n]; }
meanPoint(points) ==
    CHOOSE res \in
      { << Div(s[1], n), Div(s[2], n) >>
        : n \in { Num(Len(points), 0) }, s \in { SumPoints(points, 1, << Zero, Zero >>) } } : TRUE

\* function getPts(landmarks, idxs) { return idxs.map(i => [landmarks[i].x, landmarks[i].y]); }
getPts(lms, idxs) == [j \in 1..Len(idxs) |-> << lms[idxs[j]].x, lms[idxs[j]].y >>]

\* [landmarks[i].x, landmarks[i].y]
PointAt(lms, i) == << lms[i].x, lms[i].y >>

\* ------------------------------------------------------------------------
\* Landmark registry (part_001, lines 394-402)
\* ------------------------------------------------------------------------

LMTable ==
    [ leftEye       |-> << 33, 133, 159, 145, 153, 144 >>,
      rightEye      |-> << 362, 263, 386, 374, 380, 373 >>,
      leftInner     |-> 133,
      rightInner    |-> 362,
      leftOuter     |-> 33,
      rightOuter    |-> 263,
      noseBridgeTop |-> 168,
      noseTip       |-> 1,
      noseLeft      |-> 97,
      noseRight     |-> 326,
      chin          |-> 152,
      faceLeft      |-> 234,
      faceRight     |-> 454,
      browLeftMid   |-> 55,
      browRightMid  |-> 285 ]

SeqRange(q) == {q[j] : j \in 1..Len(q)}

\* The landmark indices computeMetrics reads (lines 414-457).
MetricIndices ==
    SeqRange(LM.leftEye) \cup SeqRange(LM.rightEye)
    \cup { LM.leftInner, LM.rightInner, LM.leftOuter, LM.rightOuter,
           LM.noseBridgeTop, LM.noseLeft, LM.noseRight, LM.chin,
           LM.faceLeft, LM.faceRight, LM.browLeftMid, LM.browRightMid }

\* idxs.shift(): the array without its first element.
ArrayAfterShift(idxs) == Tail(idxs)

\* idxs.sort((a, b) => a - b): the array in ascending order.
ArrayAfterSort(idxs) ==
    CHOOSE q \in [1..Len(idxs) -> SeqRange(idxs)] :
        /\ SeqRange(q) = SeqRange(idxs)
        /\ \A a, b \in 1..Len(idxs) : a < b => q[a] <= q[b]

\* The receiver of idxs.map(...) (line 407) and of [...idxs] (line 523) after
\* the call: map and spread build a new array and leave idxs as it was.
ArrayAfterMap(idxs) == idxs

\* The registry after computeMetrics and draw have read it (lines 414-415,
\* 419-454, 523): the two arrays after getPts and the spread, the indices
\* untouched.
LMAfterReads(reg) ==
    [reg EXCEPT !.leftEye = ArrayAfterMap(reg.leftEye),
                !.rightEye = ArrayAfterMap(reg.rightEye)]

\* ------------------------------------------------------------------------
\* computeMetrics (part_001, lines 412-460)
\* ------------------------------------------------------------------------

\* The substitute of a zero denominator: `|| 1e-6`.
Epsilon == Num(1, -6)

\* const faceWidth = dist(faceLeft, faceRight);
faceWidthOf(lms) == dist(PointAt(lms, LM.faceLeft), PointAt(lms, LM.faceRight))

\* faceLength without the correction factor 1.4.
faceLengthUncorrected(lms) == dist(PointAt(lms, LM.noseBridgeTop), PointAt(lms, LM.chin))

\* const faceLength = dist(noseBridgeTop, chin) * 1.4;
faceLengthOf(lms) ==
    Mul(dist(PointAt(lms, LM.noseBridgeTop), PointAt(lms, LM.chin)), Num(14, -1))

\* const midlineX = eyeCenterMid[0];
midlineXOf(lms) ==
    CHOOSE res \in
      { Div(Add(leftEyeCenter[1], rightEyeCenter[1]), Num(2, 0))
        : leftEyeCenter \in { meanPoint(getPts(lms, LM.leftEye)) },
          rightEyeCenter \in { meanPoint(getPts(lms, LM.rightEye)) } } : TRUE

\* symErrOf without the reflection: the distance of L to R itself.
symErrUnmirrored(lms, midlineX, l, r) == dist(PointAt(lms, l), PointAt(lms, r))

\* The error of one left/right pair: dist(L, Rm), Rm the mirror of R about
\* x = midlineX (lines 429-434).
symErrOf(lms, midlineX, l, r) ==
    LET L  == PointAt(lms, l)
        R  == PointAt(lms, r)
        Rm == << Sub(Mul(Num(2, 0), midlineX), R[1]), R[2] >>
    IN  dist(L, Rm)

\* const symmetryErr = symErrs.reduce((a, b) => a + b, 0) / symErrs.length;
symmetryErrOf(lms) ==
    CHOOSE res \in
      { Div(Add(Add(Add(Add(Zero, symErrOf(lms, midlineX, LM.leftOuter, LM.rightOuter)),
                        symErrOf(lms, midlineX, LM.leftInner, LM.rightInner)),
                    symErrOf(lms, midlineX, LM.browLeftMid, LM.browRightMid)),
                symErrOf(lms, midlineX, LM.noseLeft, LM.noseRight)),
            Num(4, 0))
        : midlineX \in { midlineXOf(lms) } } : TRUE

\* eyeW from the left eye alone, not averaged with the right eye.
eyeWLeftOnly(lms) ==
    dist(<< lms[LM.leftOuter].x, lms[LM.leftInner].y >>,
         << lms[LM.leftInner].x, lms[LM.leftInner].y >>)

\* const eyeW = (leftEyeW + rightEyeW) / 2;  (lines 446-448)
eyeWOf(lms) ==
    LET leftEyeW  == dist(<< lms[LM.leftOuter].x, lms[LM.leftInner].y >>,
                          << lms[LM.leftInner].x, lms[LM.leftInner].y >>)
        rightEyeW == dist(<< lms[LM.rightInner].x, lms[LM.rightOuter].y >>,
                          << lms[LM.rightOuter].x, lms[LM.rightOuter].y >>)
    IN  Div(Add(leftEyeW, rightEyeW), Num(2, 0))

\* innerGap measured between the outer corners.
innerGapOuter(lms) == dist(PointAt(lms, LM.leftOuter), PointAt(lms, LM.rightOuter))

\* const innerGap = dist(leftInner, rightInner);
innerGapOf(lms) == dist(PointAt(lms, LM.leftInner), PointAt(lms, LM.rightInner))

NoMetrics ==
    [ symmetryScore |-> NaN, goldenScore |-> NaN, fifthsScore |-> NaN, eyeGapScore |-> NaN,
      raw |-> [lw |-> NaN, fifths |-> NaN, eyeGapRatio |-> NaN, symmetryNorm |-> NaN] ]

\* Lines 435-459: the scores and raw ratios from the five measurements.
metricsFrom(faceWidth, faceLength, symmetryErr, eyeW, innerGap) ==
    LET symmetryNorm  == Div(symmetryErr, OrElse(faceWidth, Epsilon))
        symmetryScore == scoreFromError(symmetryNorm, Num(4, -2))
        lw            == Div(faceLength, OrElse(faceWidth, Epsilon))
        goldenTarget  == Num(1618, -3)
        goldenErr     == Div(MathAbs(Sub(lw, goldenTarget)), goldenTarget)
        goldenScore   == scoreFromError(goldenErr, Num(15, -2))
        fifths        == Div(OrElse(faceWidth, Epsilon), OrElse(eyeW, Epsilon))
        fifthsErr     == Div(MathAbs(Sub(fifths, Num(5, 0))), Num(5, 0))
        fifthsScore   == scoreFromError(fifthsErr, Num(18, -2))
        eyeGapRatio   == Div(innerGap, OrElse(eyeW, Epsilon))
        eyeGapErr     == MathAbs(Sub(eyeGapRatio, Num(1, 0)))
        eyeGapScore   == scoreFromError(eyeGapErr, Num(25, -2))
    IN  [ symmetryScore |-> symmetryScore, goldenScore |-> goldenScore,
          fifthsScore |-> fifthsScore, eyeGapScore |-> eyeGapScore,
          raw |-> [lw |-> lw, fifths |-> fifths, eyeGapRatio |-> eyeGapRatio,
                   symmetryNorm |-> symmetryNorm] ]

\* The metrics object of line 459, for a landmark set holding every index read.
metricsOf(lms) ==
    CHOOSE res \in
      { metricsFrom(faceWidth, faceLength, symmetryErr, eyeW, innerGap)
        : faceWidth \in { faceWidthOf(lms) }, faceLength \in { faceLengthOf(lms) },
          symmetryErr \in { symmetryErrOf(lms) }, eyeW \in { eyeWOf(lms) },
          innerGap \in { innerGapOf(lms) } } : TRUE

\* computeMetrics reading landmarks[i]?.x: a missing index gives undefined
\* coordinates and a metrics object of NaN instead of a throw.
computeMetricsLenient(lms) ==
    IF MetricIndices \subseteq DOMAIN lms
    THEN [kind |-> "return", val |-> metricsOf(lms)]
    ELSE [kind |-> "return", val |-> NoMetrics]

\* function computeMetrics(landmarks): reading landmarks[i].x of an index the
\* set does not hold throws a TypeError.
computeMetrics(lms) ==
    IF MetricIndices \subseteq DOMAIN lms
    THEN [kind |-> "return", val |-> metricsOf(lms)]
    ELSE [kind |-> "TypeError", val |-> NoMetrics]

\* ------------------------------------------------------------------------
\* weightedScore (part_001, lines 462-466)
\* ------------------------------------------------------------------------

\* The property names a weights object may hold, in insertion order.
WeightKeyOrder == << "symmetry", "golden", "fifths", "eyeGap", "proportion", "extra" >>

WeightKeys == SeqRange(WeightKeyOrder)

RECURSIVE SumValues(_, _, _)
\* Object.values(w).reduce((a, b) => a + b, 0)
SumValues(w, i, acc) ==
    CHOOSE res \in
      { IF i > Len(WeightKeyOrder) THEN s
        ELSE SumValues(w, i + 1,
                       IF WeightKeyOrder[i] \in DOMAIN w THEN Add(s, w[WeightKeyOrder[i]]) ELSE s)
        : s \in {acc} } : TRUE

\* weights.key as an operand of `*`: undefined converts to NaN.
Prop(w, key) == IF key \in DOMAIN w THEN w[key] ELSE NaN

\* A weights argument: `given` is false for undefined.
WeightsArg(w) == [given |-> TRUE, obj |-> w]

NoWeightsArg == [given |-> FALSE, obj |-> [key \in {} |-> Zero]]

\* weightedScore without the division by the weight sum.
weightedScoreNoDivision(m, wa) ==
    IF ~wa.given THEN [kind |-> "TypeError", val |-> NaN]
    ELSE [kind |-> "return",
          val  |-> Add(Add(Add(Mul(m.symmetryScore, Prop(wa.obj, "symmetry")),
                               Mul(m.goldenScore, Prop(wa.obj, "golden"))),
                           Mul(m.fifthsScore, Prop(wa.obj, "fifths"))),
                       Mul(m.eyeGapScore, Prop(wa.obj, "eyeGap")))]

\* weightedScore with the proportion and the fifths weight exchanged.
weightedScoreSwappedWeights(m, wa) ==
    IF ~wa.given THEN [kind |-> "TypeError", val |-> NaN]
    ELSE LET wSum == OrElse(SumValues(wa.obj, 1, Zero), Num(1, 0))
         IN  [kind |-> "return",
              val  |-> Div(Add(Add(Add(Mul(m.symmetryScore, Prop(wa.obj, "symmetry")),
                                       Mul(m.goldenScore, Prop(wa.obj, "fifths"))),
                                   Mul(m.fifthsScore, Prop(wa.obj, "golden"))),
                               Mul(m.eyeGapScore, Prop(wa.obj, "eyeGap"))),
                           wSum)]

\* weightedScore without the `|| 1` on the weight sum.
weightedScoreNoFallback(m, wa) ==
    IF ~wa.given THEN [kind |-> "TypeError", val |-> NaN]
    ELSE LET wSum == SumValues(wa.obj, 1, Zero)
         IN  [kind |-> "return",
              val  |-> Div(Add(Add(Add(Mul(m.symmetryScore, Prop(wa.obj, "symmetry")),
                                       Mul(m.goldenScore, Prop(wa.obj, "golden"))),
                                   Mul(m.fifthsScore, Prop(wa.obj, "fifths"))),
                               Mul(m.eyeGapScore, Prop(wa.obj, "eyeGap"))),
                           wSum)]

\* weightedScore dividing by the constant 100, the sum of the App's weights.
weightedScoreFixedDivisor(m, wa) ==
    IF ~wa.given THEN [kind |-> "TypeError", val |-> NaN]
    ELSE [kind |-> "return",
          val  |-> Div(Add(Add(Add(Mul(m.symmetryScore, Prop(wa.obj, "symmetry")),
                                   Mul(m.goldenScore, Prop(wa.obj, "golden"))),
                               Mul(m.fifthsScore, Prop(wa.obj, "fifths"))),
                           Mul(m.eyeGapScore, Prop(wa.obj, "eyeGap"))),
                       Num(100, 0))]

\* function weightedScore(metrics, weights): Object.values(undefined) throws a
\* TypeError.
weightedScore(m, wa) ==
    IF ~wa.given THEN [kind |-> "TypeError", val |-> NaN]
    ELSE LET wSum == OrElse(SumValues(wa.obj, 1, Zero), Num(1, 0))
         IN  [kind |-> "return",
              val  |-> Div(Add(Add(Add(Mul(m.symmetryScore, Prop(wa.obj, "symmetry")),
                                       Mul(m.goldenScore, Prop(wa.obj, "golden"))),
                                   Mul(m.fifthsScore, Prop(wa.obj, "fifths"))),
                               Mul(m.eyeGapScore, Prop(wa.obj, "eyeGap"))),
                           wSum)]

\* const [weights] = useState({ symmetry: 40, golden: 25, fifths: 20, eyeGap: 15 });
AppWeights ==
    [key \in {"symmetry", "golden", "fifths", "eyeGap"} |->
        CASE key = "symmetry" -> Num(40, 0)
          [] key = "golden"   -> Num(25, 0)
          [] key = "fifths"   -> Num(20, 0)
          [] key = "eyeGap"   -> Num(15, 0)]

NoOutcome == [kind |-> "none", val |-> NaN]

NoMetricsOutcome == [kind |-> "none", val |-> NoMetrics]

\* ------------------------------------------------------------------------
\* Legacy linear-score App: calculateFacialMetrics (part_001, lines 42-120)
\* ------------------------------------------------------------------------

\* Math.sqrt(Math.pow(b.x - a.x, 2) + Math.pow(b.y - a.y, 2))  (lines 55-73, 81-88)
PointDistance(a, b) ==
    CHOOSE res \in
      { Sqrt(Add(Mul(dx, dx), Mul(dy, dy)))
        : dx \in { Sub(b.x, a.x) }, dy \in { Sub(b.y, a.y) } } : TRUE

\* determineFaceShape (lines 114-120); every comparison with NaN is false.
determineFaceShape(ratio) ==
    IF Lt(ratio, Num(13, -1)) THEN "Round"
    ELSE IF Lt(ratio, Num(15, -1)) THEN "Square"
    ELSE IF Lt(ratio, Num(17, -1)) THEN "Heart"
    ELSE IF Lt(ratio, Num(19, -1)) THEN "Oval"
    ELSE "Oblong"

\* Math.max(0, 1 - Math.abs(ratio - ideal) / ideal) * 100  (lines 92, 94)
RatioScore(ratio, ideal) ==
    CHOOSE res \in
      { Mul(MathMax(Zero, Sub(Num(1, 0), Div(MathAbs(Sub(r, i)), i))), Num(100, 0))
        : r \in {ratio}, i \in {ideal} } : TRUE

\* 1 - Math.abs(l - r) / Math.max(l, r)  (line 89)
LegacySymmetry(l, r) ==
    CHOOSE res \in
      { Sub(Num(1, 0), Div(MathAbs(Sub(a, b)), MathMax(a, b))) : a \in {l}, b \in {r} } : TRUE

\* proportionScore * 0.4 + symmetryPercentage * 0.4 + harmonyScore * 0.2  (line 97)
LegacyOverall(proportionScore, symmetryPercentage, harmonyScore) ==
    CHOOSE res \in
      { Add(Add(Mul(p, Num(4, -1)), Mul(s, Num(4, -1))), Mul(h, Num(2, -1)))
        : p \in {proportionScore}, s \in {symmetryPercentage}, h \in {harmonyScore} } : TRUE

\* The object returned at lines 99-111, without the strings of `details`.
LegacyResult(faceRatio, proportionScore, symmetryPercentage, harmonyScore) ==
    [ overallScore |-> MathMin(Num(95, 0), MathMax(Num(60, 0),
                         LegacyOverall(proportionScore, symmetryPercentage, harmonyScore))),
      proportions  |-> proportionScore,
      symmetry     |-> symmetryPercentage,
      harmony      |-> harmonyScore,
      faceShape    |-> determineFaceShape(faceRatio) ]

\* calculateFacialMetrics (lines 42-112) for keypoints that hold every index it
\* reads.
calculateFacialMetrics(kp) ==
    CHOOSE res \in
      { LegacyResult(faceRatio, RatioScore(faceRatio, Num(1618, -3)),
                     Mul(LegacySymmetry(leftEyeToNose, rightEyeToNose), Num(100, 0)),
                     RatioScore(eyeToMouthRatio, Num(15, -1)))
        : faceRatio \in { Div(PointDistance(kp[10], kp[152]), PointDistance(kp[234], kp[454])) },
          eyeToMouthRatio \in { Div(PointDistance(kp[33], kp[263]), PointDistance(kp[61], kp[291])) },
          leftEyeToNose \in { PointDistance(kp[1], kp[33]) },
          rightEyeToNose \in { PointDistance(kp[1], kp[263]) } } : TRUE

\* ------------------------------------------------------------------------
\* Electron main process: IPC handlers (part_000, lines 429-516, 566-622)
\* ------------------------------------------------------------------------

\* The messages of the errors the handlers can meet.
TypeErrorMessage == "Cannot read properties of undefined"

ArgTypeMessage == "The \"data\" argument must be of type string"

DialogMessage == "dialog failed"

FileMessage == "EACCES: permission denied"

SyntaxMessage == "Unexpected token in JSON"

NoResult == [settled |-> "pending", success |-> FALSE, kind |-> "", error |-> ""]

\* A handler whose catch block throws the error again.
Rethrown(message) ==
    [settled |-> "rejected", success |-> FALSE, kind |-> "error", error |-> message]

\* catch (error) { console.error(...); return { success: false, error: error.message }; }
\* (lines 445-448, 468-471, 512-515)
Caught(message) ==
    [settled |-> "resolved", success |-> FALSE, kind |-> "error", error |-> message]

\* return { success: false, cancelled: true };  (lines 444, 467, 511)
Cancelled == [settled |-> "resolved", success |-> FALSE, kind |-> "cancelled", error |-> ""]

\* return { success: true, path: filePath } / { success: true, data: ... }
\* (lines 442, 465, 509)
Succeeded == [settled |-> "resolved", success |-> TRUE, kind |-> "ok", error |-> ""]

\* generateTextReport and generateCSVReport read data.details.faceRatio (lines
\* 582, 620), generateHTMLReport reads only properties of data (lines 588-611):
\* TRUE when the report of the format throws a TypeError for the data.
ReportThrows(data, format) ==
    CASE format = "pdf"  -> FALSE
      [] format = "html" -> data = "undefined"
      [] OTHER           -> data # "full"

\* The part of export-results before its await (lines 477-505): the switch
\* over the format, then `format.toUpperCase()` in the dialog's options.
ExportThrows(data, format) == ReportThrows(data, format) \/ format = "undefined"

\* JSON.stringify(data, null, 2) is undefined for an undefined data, and
\* fs.writeFile rejects an undefined content without writing (line 441).
WriteRejectsArgument(channel, data) == channel = "save-analysis" /\ data = "undefined"

\* ------------------------------------------------------------------------
\* Bounds and input sets
\* ------------------------------------------------------------------------

MaxErrN == 6

MaxErrExp == 1

MaxTolN == 2

MaxTolExp == 1

MaxScoreStep == 1

MaxWeight == 1

MaxGrid == 1

MaxMoves == 1

MaxCalls == 3

MaxPoints == 3

MaxMerges == 2

MaxFiles == 3

MaxPicks == 2

MaxInvocations == 2

\* The tolerances the program passes (lines 409, 437, 443, 451, 457).
ProgramTolerances == { Num(1, -1), Num(4, -2), Num(15, -2), Num(18, -2), Num(25, -2) }

ErrSet == { Num(n, -x) : n \in -MaxErrN..MaxErrN, x \in 0..MaxErrExp }

TolSet == { Num(n, -x) : n \in -MaxTolN..MaxTolN, x \in 0..MaxTolExp } \cup ProgramTolerances

ScoreSet == { Div(Num(100 * n, 0), Num(MaxScoreStep, 0)) : n \in 0..MaxScoreStep }

MetricsSet ==
    { [ symmetryScore |-> a, goldenScore |-> b, fifthsScore |-> c, eyeGapScore |-> d,
        raw |-> NoMetrics.raw ] : a \in ScoreSet, b \in ScoreSet, c \in ScoreSet, d \in ScoreSet }

CodeKeys == { "symmetry", "golden", "fifths", "eyeGap" }

WeightVals == { Num(n, 0) : n \in 0..MaxWeight }

\* Configurations over any of the keys the code reads, with at most one key it
\* does not read.
WeightKeySets == { S \in SUBSET WeightKeys : ~({ "proportion", "extra" } \subseteq S) }

\* Configurations with four equal weights: 0.25 each and 7 each.
EqualWeightObjects == { [key \in CodeKeys |-> v] : v \in { Num(25, -2), Num(7, 0) } }

WeightObjects ==
    UNION { [S -> WeightVals] : S \in WeightKeySets } \cup { AppWeights } \cup EqualWeightObjects

WeightArgSet == { NoWeightsArg } \cup { WeightsArg(w) : w \in WeightObjects }

\* Full configurations over the keys the code reads: non-negative, positive sum.
EngineWeightSet ==
    { AppWeights } \cup
    { [key \in CodeKeys |-> IF key = h THEN Num(MaxWeight, 0) ELSE Num(l, 0)] :
        h \in CodeKeys, l \in 0..1 }

\* The coordinates a landmark can be moved to: a coarse pixel grid, and one
\* value below the epsilon of computeMetrics.
CoordSet == { Num(50 * n, 0) : n \in 0..MaxGrid } \cup { Num(1, -7) }

P(x, y) == [x |-> x, y |-> y]

\* A synthetic face: face width 100, bridge-to-chin 115.6 (face length 161.8),
\* eyes 20 wide with an inner gap of 20, left and right mirrored about x = 50.
IdealFace ==
    (33  :> P(Num(20, 0), Num(50, 0)))  @@ (133 :> P(Num(40, 0), Num(50, 0))) @@
    (159 :> P(Num(30, 0), Num(48, 0)))  @@ (145 :> P(Num(30, 0), Num(52, 0))) @@
    (153 :> P(Num(30, 0), Num(52, 0)))  @@ (144 :> P(Num(30, 0), Num(48, 0))) @@
    (362 :> P(Num(60, 0), Num(50, 0)))  @@ (263 :> P(Num(80, 0), Num(50, 0))) @@
    (386 :> P(Num(70, 0), Num(48, 0)))  @@ (374 :> P(Num(70, 0), Num(52, 0))) @@
    (380 :> P(Num(70, 0), Num(52, 0)))  @@ (373 :> P(Num(70, 0), Num(48, 0))) @@
    (168 :> P(Num(50, 0), Num(40, 0)))  @@ (1   :> P(Num(50, 0), Num(95, 0))) @@
    (97  :> P(Num(45, 0), Num(100, 0))) @@ (326 :> P(Num(55, 0), Num(100, 0))) @@
    (152 :> P(Num(50, 0), Num(1556, -1))) @@
    (234 :> P(Num(0, 0), Num(60, 0)))   @@ (454 :> P(Num(100, 0), Num(60, 0))) @@
    (55  :> P(Num(30, 0), Num(40, 0)))  @@ (285 :> P(Num(70, 0), Num(40, 0)))

\* Every landmark on one point: all distances are zero.
CollapsedFace == [i \in DOMAIN IdealFace |-> P(Zero, Zero)]

\* The synthetic face shrunk to a few 1e-7 pixels around the origin, its two
\* face-width boundary points on one point: bridge-to-chin 1.156e-6, eyes 2e-7
\* wide with an inner gap of 2e-7, left and right mirrored about x = 0.
MicroFace ==
    (33  :> P(Num(-3, -7), Zero))         @@ (133 :> P(Num(-1, -7), Zero)) @@
    (159 :> P(Num(-2, -7), Num(-1, -8)))  @@ (145 :> P(Num(-2, -7), Num(1, -8))) @@
    (153 :> P(Num(-2, -7), Num(1, -8)))   @@ (144 :> P(Num(-2, -7), Num(-1, -8))) @@
    (362 :> P(Num(1, -7), Zero))          @@ (263 :> P(Num(3, -7), Zero)) @@
    (386 :> P(Num(2, -7), Num(-1, -8)))   @@ (374 :> P(Num(2, -7), Num(1, -8))) @@
    (380 :> P(Num(2, -7), Num(1, -8)))    @@ (373 :> P(Num(2, -7), Num(-1, -8))) @@
    (168 :> P(Zero, Zero))                @@ (1   :> P(Zero, Num(5, -7))) @@
    (97  :> P(Num(-5, -8), Num(6, -7)))   @@ (326 :> P(Num(5, -8), Num(6, -7))) @@
    (152 :> P(Zero, Num(1156, -9)))       @@
    (234 :> P(Zero, Num(1, -7)))          @@ (454 :> P(Zero, Num(1, -7))) @@
    (55  :> P(Num(-2, -7), Num(-1, -7)))  @@ (285 :> P(Num(2, -7), Num(-1, -7)))

BaseFaces == { IdealFace, CollapsedFace, MicroFace }

\* The faces of a run of several analyses: the base faces, the synthetic face
\* with another x of the right face-width boundary point, and the synthetic
\* face from a mesh that ends before the index 454 or before the index 263.
RepeatFaces ==
    BaseFaces
    \cup { [IdealFace EXCEPT ![454].x = c] : c \in CoordSet }
    \cup { [j \in { k \in DOMAIN IdealFace : k < i } |-> IdealFace[j]] : i \in { 263, 454 } }

\* Keypoints of the legacy App: face height 160 over width 100, eyes 40 apart
\* and at equal distances from the nose tip, mouth 30 wide.
LegacyFace ==
    (33  :> P(Num(30, 0), Num(50, 0)))  @@ (263 :> P(Num(70, 0), Num(50, 0))) @@
    (1   :> P(Num(50, 0), Num(70, 0)))  @@
    (61  :> P(Num(35, 0), Num(100, 0))) @@ (291 :> P(Num(65, 0), Num(100, 0))) @@
    (10  :> P(Num(50, 0), Zero))        @@ (152 :> P(Num(50, 0), Num(160, 0))) @@
    (234 :> P(Zero, Num(60, 0)))        @@ (454 :> P(Num(100, 0), Num(60, 0)))

\* A face as high as wide, the right eye three times as far from the nose tip
\* as the left one, the mouth as wide as the eye distance.
SkewedFace ==
    (33  :> P(Num(40, 0), Num(60, 0)))  @@ (263 :> P(Num(80, 0), Num(40, 0))) @@
    (1   :> P(Num(50, 0), Num(70, 0)))  @@
    (61  :> P(Num(30, 0), Num(90, 0)))  @@ (291 :> P(Num(70, 0), Num(110, 0))) @@
    (10  :> P(Num(50, 0), Zero))        @@ (152 :> P(Num(50, 0), Num(100, 0))) @@
    (234 :> P(Zero, Num(60, 0)))        @@ (454 :> P(Num(100, 0), Num(60, 0)))

LegacyFaces == { LegacyFace, SkewedFace }

\* The pairs << i, j >> of keypoints that can coincide, i lying on j: the ends
\* of the face width, face height, eye, mouth and eye-to-nose distances.
MergePairs ==
    { << 454, 234 >>, << 152, 10 >>, << 263, 33 >>, << 291, 61 >>,
      << 33, 1 >>, << 263, 1 >>, << 10, 1 >>, << 234, 1 >> }

\* ------------------------------------------------------------------------
\* State machines
\* ------------------------------------------------------------------------

SfeIdle ==
    /\ sfeErr = Zero /\ sfeErr2 = Zero /\ sfeTol = Num(1, -1)
    /\ sfePc = "idle" /\ sfeRes = NoOutcome /\ sfeRes2 = NoOutcome

WsIdle ==
    /\ wsMetrics = NoMetrics /\ wsWeights = NoWeightsArg
    /\ wsPc = "idle" /\ wsRes = NoOutcome

EngIdle ==
    /\ landmarks = IdealFace /\ moves = 0 /\ weights = AppWeights
    /\ engPc = "idle" /\ metrics = NoMetricsOutcome /\ score = NoOutcome

\* useState(null) for metrics and score; no engine call made yet.
NullMetrics == [kind |-> "null", val |-> NoMetrics]

NullScore == [kind |-> "null", val |-> NaN]

NoSeen ==
    [kind |-> "none", landmarks |-> IdealFace, weights |-> AppWeights,
     metrics |-> NoMetricsOutcome, score |-> NoOutcome]

AppIdle ==
    /\ appMetrics = NullMetrics /\ appScore = NullScore
    /\ calls = 0 /\ seen = NoSeen

MpIdle == mpPoints = << >> /\ mpPc = "idle" /\ mpRes = [kind |-> "none", val |-> << NaN, NaN >>]

NoIndex == [kind |-> "none", val |-> 0]

LkIdle ==
    /\ lkName = "chin" /\ lkPc = "idle" /\ lkIdx = NoIndex
    /\ lkRes = [kind |-> "none", val |-> << >>]

NoLegacyResult ==
    [kind |-> "none",
     val |-> [overallScore |-> NaN, proportions |-> NaN, symmetry |-> NaN, harmony |-> NaN,
              faceShape |-> ""]]

LgIdle == lgKeypoints = LegacyFace /\ lgMerges = 0 /\ lgPc = "idle" /\ lgRes = NoLegacyResult

\* The App before its mount effect has run (lines 469-473).
UiIdle ==
    /\ model = FALSE /\ loading = FALSE /\ imgSrc = 0
    /\ files = 0 /\ flight = 0 /\ shownImg = 0

\* useState(null) for analysisResult.
NullResult == [kind |-> "null", val |-> NoLegacyResult.val]

\* The legacy App before its mount effect has run (lines 7-12).
LegacyIdle ==
    /\ isModelLoaded = FALSE /\ isAnalyzing = FALSE /\ analysisResult = NullResult
    /\ selectedImage = 0 /\ errorMessage = "" /\ detector = FALSE
    /\ modelPc = "idle" /\ picked = 0 /\ reading = {} /\ imgLoaded = FALSE /\ flights = {}

\* No handler of the main process invoked.
IpcIdle ==
    /\ ipcChannel = "" /\ ipcData = "full" /\ ipcFormat = "undefined"
    /\ ipcPc = "idle" /\ ipcResult = NoResult
    /\ ipcDialog = "none" /\ ipcRaised = "" /\ ipcDisk = "none" /\ ipcCalls = 0

\* The main process before app.whenReady() resolves: `let mainWindow;`.
WinIdle ==
    /\ platform = "darwin" /\ mainWindow = "undefined"
    /\ winShown = FALSE /\ winMinimized = FALSE /\ winMaximized = FALSE /\ winFocused = FALSE
    /\ appQuit = FALSE /\ lastEvent = "" /\ lastOutcome = "ok"

ExtIdle == LgIdle /\ UiIdle /\ LegacyIdle /\ IpcIdle /\ WinIdle

\* Two calls of scoreFromError with the same tolerance.
ScoreFromErrorCall ==
    /\ sfePc = "input"
    /\ sfeRes' = [kind |-> "return", val |-> scoreFromError(sfeErr, sfeTol)]
    /\ sfeRes2' = [kind |-> "return", val |-> scoreFromError(sfeErr2, sfeTol)]
    /\ sfePc' = "done"
    /\ UNCHANGED << LM, sfeErr, sfeErr2, sfeTol, wsVars, engVars, appVars, mpVars, lkVars, extVars >>

InitScore ==
    /\ LM = LMTable
    /\ sfeErr \in ErrSet /\ sfeErr2 \in ErrSet /\ sfeTol \in TolSet
    /\ sfePc = "input" /\ sfeRes = NoOutcome /\ sfeRes2 = NoOutcome
    /\ WsIdle /\ EngIdle /\ AppIdle /\ MpIdle /\ LkIdle /\ ExtIdle

NextScore == ScoreFromErrorCall

SpecScore == InitScore /\ [][NextScore]_vars

\* One call of weightedScore.
WeightedScoreCall ==
    /\ wsPc = "input"
    /\ wsRes' = weightedScore(wsMetrics, wsWeights)
    /\ wsPc' = "done"
    /\ UNCHANGED << LM, wsMetrics, wsWeights, sfeVars, engVars, appVars, mpVars, lkVars, extVars >>

InitWeighted ==
    /\ LM = LMTable
    /\ wsMetrics \in MetricsSet /\ wsWeights \in WeightArgSet
    /\ wsPc = "input" /\ wsRes = NoOutcome
    /\ SfeIdle /\ EngIdle /\ AppIdle /\ MpIdle /\ LkIdle /\ ExtIdle

NextWeighted == WeightedScoreCall

SpecWeighted == InitWeighted /\ [][NextWeighted]_vars

\* The points and the point sequences handed to meanPoint.
MeanPointSet == { << x, y >> : x \in { Zero, Num(50, 0) }, y \in { Zero, Num(1, -7) } }

PointSeqs == UNION { [1..n -> MeanPointSet] : n \in 0..MaxPoints }

\* One call of meanPoint: the function has no throw statement, every call
\* returns.
MeanPointCall ==
    /\ mpPc = "input"
    /\ mpRes' = [kind |-> "return", val |-> meanPoint(mpPoints)]
    /\ mpPc' = "done"
    /\ UNCHANGED << LM, mpPoints, sfeVars, wsVars, engVars, appVars, lkVars, extVars >>

InitMean ==
    /\ LM = LMTable
    /\ mpPoints \in PointSeqs /\ mpPc = "input"
    /\ mpRes = [kind |-> "none", val |-> << NaN, NaN >>]
    /\ SfeIdle /\ WsIdle /\ EngIdle /\ AppIdle /\ LkIdle /\ ExtIdle

NextMean == MeanPointCall

SpecMean == InitMean /\ [][NextMean]_vars

\* Feature names the registry does not define.
UnknownNames == { "leftEyeOuter", "hairline" }

FeatureNames == DOMAIN LMTable \cup UnknownNames

\* The features whose registry entry is an array of indices (lines 395-396).
ArrayFeatures == { "leftEye", "rightEye" }

\* A lookup that falls back to the nose tip: reg[name] ?? reg.noseTip.
LookupOrNoseTip(reg, name) ==
    [kind |-> "value", val |-> IF name \in DOMAIN reg THEN reg[name] ELSE reg.noseTip]

\* LM[name], the property access of lines 414-454: a name the object does not
\* hold gives undefined, without an error.
Lookup(reg, name) ==
    IF name \in DOMAIN reg THEN [kind |-> "value", val |-> reg[name]]
    ELSE [kind |-> "undefined", val |-> 0]

\* The read of the landmark set with a looked-up value: getPts(landmarks, idxs)
\* for an array feature (lines 407, 414), [landmarks[i].x, landmarks[i].y] for a
\* single index (line 419); the result is the sequence of the points read.
\* undefined.map, and landmarks[i].x for a landmarks[i] that is undefined, throw
\* a TypeError.
ReadFeature(lms, name, lk) ==
    IF lk.kind # "value" THEN [kind |-> "TypeError", val |-> << >>]
    ELSE IF name \in ArrayFeatures
         THEN IF SeqRange(lk.val) \subseteq DOMAIN lms
              THEN [kind |-> "return", val |-> getPts(lms, lk.val)]
              ELSE [kind |-> "TypeError", val |-> << >>]
         ELSE IF lk.val \in DOMAIN lms
              THEN [kind |-> "return", val |-> << PointAt(lms, lk.val) >>]
              ELSE [kind |-> "TypeError", val |-> << >>]

LookupFeature ==
    /\ lkPc = "input"
    /\ lkIdx' = Lookup(LM, lkName)
    /\ lkPc' = "looked"
    /\ UNCHANGED << LM, lkName, lkRes, sfeVars, wsVars, engVars, appVars, mpVars, extVars >>

ReadLandmarks ==
    /\ lkPc = "looked"
    /\ lkRes' = ReadFeature(landmarks, lkName, lkIdx)
    /\ lkPc' = "done"
    /\ UNCHANGED << LM, lkName, lkIdx, sfeVars, wsVars, engVars, appVars, mpVars, extVars >>

InitLookup ==
    /\ LM = LMTable
    /\ lkName \in FeatureNames /\ lkPc = "input" /\ lkIdx = NoIndex
    /\ lkRes = [kind |-> "none", val |-> << >>]
    /\ landmarks \in RepeatFaces /\ moves = 0 /\ weights = AppWeights
    /\ engPc = "idle" /\ metrics = NoMetricsOutcome /\ score = NoOutcome
    /\ SfeIdle /\ WsIdle /\ AppIdle /\ MpIdle /\ ExtIdle

NextLookup == LookupFeature \/ ReadLandmarks

SpecLookup == InitLookup /\ [][NextLookup]_vars

\* The landmarks whose coordinates are varied: the eye corners, the bridge and
\* the chin, the two face-width boundary points, and one contour, nostril and
\* brow point of the symmetry pairs.
MovableIndices == { 33, 133, 362, 263, 168, 152, 234, 454, 386, 97, 55 }

\* The detector's output differs from the base face in one more coordinate.
MoveLandmarkX ==
    /\ engPc = "input" /\ moves < MaxMoves
    /\ \E i \in MovableIndices \cap DOMAIN landmarks, c \in CoordSet :
          /\ landmarks[i].x # c
          /\ landmarks' = [landmarks EXCEPT ![i].x = c]
    /\ moves' = moves + 1
    /\ UNCHANGED << LM, weights, engPc, metrics, score, sfeVars, wsVars, appVars, mpVars, lkVars, extVars >>

MoveLandmarkY ==
    /\ engPc = "input" /\ moves < MaxMoves
    /\ \E i \in MovableIndices \cap DOMAIN landmarks, c \in CoordSet :
          /\ landmarks[i].y # c
          /\ landmarks' = [landmarks EXCEPT ![i].y = c]
    /\ moves' = moves + 1
    /\ UNCHANGED << LM, weights, engPc, metrics, score, sfeVars, wsVars, appVars, mpVars, lkVars, extVars >>

\* The detector's mesh is shorter than the index i: scaledMesh.map (line 503)
\* gives a landmark array that ends before i.
TruncateLandmarks ==
    /\ engPc = "input" /\ moves < MaxMoves
    /\ \E i \in MovableIndices \cap DOMAIN landmarks :
          landmarks' = [j \in { k \in DOMAIN landmarks : k < i } |-> landmarks[j]]
    /\ moves' = moves + 1
    /\ UNCHANGED << LM, weights, engPc, metrics, score, sfeVars, wsVars, appVars, mpVars, lkVars, extVars >>

\* const m = computeMetrics(lm); const s = weightedScore(m, weights);
\* setMetrics(m); setScore(s); draw(lm);  (lines 504-508), for the weights the
\* caller holds. A throw of computeMetrics leaves the try block (line 509):
\* neither weightedScore nor the setters nor draw run.
Analyze ==
    /\ engPc = "input"
    /\ \E m \in { computeMetrics(landmarks) }, w \in EngineWeightSet :
        \E s \in { IF m.kind = "return" THEN weightedScore(m.val, WeightsArg(w))
                   ELSE NoOutcome } :
          /\ metrics' = m
          /\ weights' = w
          /\ score' = s
          /\ appMetrics' = IF m.kind = "return" THEN [kind |-> "value", val |-> m.val]
                           ELSE appMetrics
          /\ appScore' = IF m.kind = "return" THEN [kind |-> "value", val |-> s.val]
                         ELSE appScore
          /\ seen' = IF seen.kind = "none"
                     THEN [kind |-> "call", landmarks |-> landmarks, weights |-> w,
                           metrics |-> m, score |-> s]
                     ELSE seen
    /\ LM' = LMAfterReads(LM)
    /\ calls' = calls + 1
    /\ engPc' = "done"
    /\ UNCHANGED << landmarks, moves, sfeVars, wsVars, mpVars, lkVars, extVars >>

\* handleFile (lines 490-495): another image is chosen, metrics and score are
\* reset to null; the detector's output for it is one of the faces.
handleFile ==
    /\ engPc = "done" /\ calls < MaxCalls
    /\ landmarks' \in RepeatFaces
    /\ appMetrics' = NullMetrics /\ appScore' = NullScore
    /\ metrics' = NoMetricsOutcome /\ score' = NoOutcome
    /\ engPc' = "input"
    /\ UNCHANGED << LM, moves, weights, calls, seen, sfeVars, wsVars, mpVars, lkVars, extVars >>

Init ==
    /\ LM = LMTable
    /\ landmarks \in BaseFaces /\ moves = 0 /\ weights = AppWeights
    /\ engPc = "input" /\ metrics = NoMetricsOutcome /\ score = NoOutcome
    /\ AppIdle
    /\ SfeIdle /\ WsIdle /\ MpIdle /\ LkIdle /\ ExtIdle

Next == MoveLandmarkX \/ MoveLandmarkY \/ TruncateLandmarks \/ Analyze

Spec == Init /\ [][Next]_vars

\* Several analyses in a row, each of another image.
InitRepeat ==
    /\ LM = LMTable
    /\ landmarks \in RepeatFaces /\ moves = 0 /\ weights = AppWeights
    /\ engPc = "input" /\ metrics = NoMetricsOutcome /\ score = NoOutcome
    /\ AppIdle
    /\ SfeIdle /\ WsIdle /\ MpIdle /\ LkIdle /\ ExtIdle

NextRepeat == Analyze \/ handleFile

SpecRepeat == InitRepeat /\ [][NextRepeat]_vars

\* The detector puts the keypoint i onto the keypoint j.
MergeKeypoints ==
    /\ lgPc = "input" /\ lgMerges < MaxMerges
    /\ \E pr \in MergePairs :
          /\ lgKeypoints[pr[1]] # lgKeypoints[pr[2]]
          /\ lgKeypoints' = [lgKeypoints EXCEPT ![pr[1]] = lgKeypoints[pr[2]]]
    /\ lgMerges' = lgMerges + 1
    /\ UNCHANGED << lgPc, lgRes, coreVars, uiVars, legacyVars, ipcVars, winVars >>

\* const metrics = calculateFacialMetrics(face.keypoints);  (line 181)
CalculateFacialMetricsCall ==
    /\ lgPc = "input"
    /\ lgRes' = [kind |-> "return", val |-> calculateFacialMetrics(lgKeypoints)]
    /\ lgPc' = "done"
    /\ UNCHANGED << lgKeypoints, lgMerges, coreVars, uiVars, legacyVars, ipcVars, winVars >>

InitLegacy ==
    /\ lgKeypoints \in LegacyFaces /\ lgMerges = 0 /\ lgPc = "input" /\ lgRes = NoLegacyResult
    /\ LM = LMTable
    /\ SfeIdle /\ WsIdle /\ EngIdle /\ AppIdle /\ MpIdle /\ LkIdle /\ UiIdle /\ LegacyIdle /\ IpcIdle /\ WinIdle

NextLegacy == MergeKeypoints \/ CalculateFacialMetricsCall

SpecLegacy == InitLegacy /\ [][NextLegacy]_vars

\* The state the App's handlers leave alone: everything but LM, metrics, score
\* and the App's own state.
uiFrame ==
    << sfeVars, wsVars, engVars, calls, seen, mpVars, lkVars, lgVars, legacyVars, ipcVars, winVars >>

\* The outcomes of model.estimateFaces (line 500): no prediction, a rejection,
\* or one prediction whose mesh gives the landmarks lm (line 503).
Predictions ==
    { [kind |-> "none", lm |-> IdealFace], [kind |-> "reject", lm |-> IdealFace] }
    \cup { [kind |-> "face", lm |-> f] : f \in RepeatFaces }

\* The mount effect (lines 478-488) gets past its two awaits: setModel(m),
\* setLoading(false).
ModelLoaded ==
    /\ ~model
    /\ model' = TRUE /\ loading' = FALSE
    /\ UNCHANGED << LM, appMetrics, appScore, imgSrc, files, flight, shownImg, uiFrame >>

\* onChange of the file input (line 531), handleFile (lines 490-495).
FileChosen ==
    /\ files < MaxFiles
    /\ files' = files + 1
    /\ imgSrc' = files + 1
    /\ appMetrics' = NullMetrics /\ appScore' = NullScore
    /\ UNCHANGED << LM, model, loading, flight, shownImg, uiFrame >>

\* onClick of the Reset button (line 541).
ResetClicked ==
    /\ imgSrc # 0 \/ appMetrics # NullMetrics
    /\ imgSrc' = 0
    /\ appMetrics' = NullMetrics /\ appScore' = NullScore
    /\ UNCHANGED << LM, model, loading, files, flight, shownImg, uiFrame >>

\* onClick of the Analyze button, enabled when imgSrc is set and loading is
\* false (line 540): analyze runs to its await (lines 497-500).
AnalyzeClicked ==
    /\ imgSrc # 0 /\ ~loading
    /\ model
    /\ loading' = TRUE
    /\ flight' = imgSrc
    /\ UNCHANGED << LM, appMetrics, appScore, model, imgSrc, files, shownImg, uiFrame >>

\* estimateFaces settles and analyze runs to its end (lines 500-509).
DetectorSettled ==
    /\ flight # 0
    /\ \E preds \in Predictions :
         \E m \in { IF preds.kind = "face" THEN computeMetrics(preds.lm) ELSE NoMetricsOutcome } :
           /\ appMetrics' = IF preds.kind = "none" THEN NullMetrics
                            ELSE IF m.kind = "return" THEN [kind |-> "value", val |-> m.val]
                            ELSE appMetrics
           /\ appScore' = IF preds.kind = "none" THEN NullScore
                          ELSE IF m.kind = "return"
                               THEN [kind |-> "value",
                                     val |-> weightedScore(m.val, WeightsArg(weights)).val]
                               ELSE appScore
           /\ shownImg' = IF preds.kind = "none" THEN 0
                          ELSE IF m.kind = "return" THEN flight
                          ELSE shownImg
           /\ LM' = IF preds.kind = "face" THEN LMAfterReads(LM) ELSE LM
    /\ loading' = FALSE
    /\ flight' = 0
    /\ UNCHANGED << model, imgSrc, files, uiFrame >>

\* The App after its mount effect has started: setLoading(true) (line 481).
InitApp ==
    /\ LM = LMTable
    /\ model = FALSE /\ loading = TRUE /\ imgSrc = 0
    /\ files = 0 /\ flight = 0 /\ shownImg = 0
    /\ landmarks = IdealFace /\ moves = 0 /\ weights = AppWeights
    /\ engPc = "idle" /\ metrics = NoMetricsOutcome /\ score = NoOutcome
    /\ AppIdle /\ SfeIdle /\ WsIdle /\ MpIdle /\ LkIdle /\ LgIdle /\ LegacyIdle /\ IpcIdle /\ WinIdle

NextApp == ModelLoaded \/ FileChosen \/ ResetClicked \/ AnalyzeClicked \/ DetectorSettled

SpecApp == InitApp /\ [][NextApp]_vars

\* The error messages of the legacy App (lines 35, 175, 193, 204).
ModelLoadError == "Failed to load face detection model. Please refresh the page."

NoFaceError == "No face detected. Please upload a clear front-facing photo."

AnalysisError == "Failed to analyze image. Please try another photo."

FileTypeError == "Please upload an image file."

\* The outcomes of detector.estimateFaces (line 172): an empty array, a
\* rejection, or one face with its keypoints.
LegacyEstimates ==
    { [kind |-> "none", keypoints |-> LegacyFace], [kind |-> "reject", keypoints |-> LegacyFace] }
    \cup { [kind |-> "face", keypoints |-> f] : f \in LegacyFaces }

\* loadModel (lines 21-37) gets past its awaits: setDetector, setIsModelLoaded.
LoadModelDone ==
    /\ modelPc = "loading"
    /\ detector' = TRUE /\ isModelLoaded' = TRUE
    /\ modelPc' = "loaded"
    /\ UNCHANGED << isAnalyzing, analysisResult, selectedImage, errorMessage,
                    picked, reading, imgLoaded, flights, coreVars, lgVars, uiVars, ipcVars, winVars >>

\* An await of loadModel rejects: the catch block (lines 33-36).
LoadModelFailed ==
    /\ modelPc = "loading"
    /\ errorMessage' = ModelLoadError
    /\ modelPc' = "failed"
    /\ UNCHANGED << isModelLoaded, isAnalyzing, analysisResult, selectedImage, detector,
                    picked, reading, imgLoaded, flights, coreVars, lgVars, uiVars, ipcVars, winVars >>

\* handleImageUpload (lines 199-215) with a file, from the upload area, which
\* is rendered while selectedImage is null (line 257): a file that is no image
\* sets the error message, an image starts a FileReader.
handleImageUpload ==
    /\ selectedImage = 0 /\ picked < MaxPicks
    /\ \E isImage \in BOOLEAN :
         IF isImage
         THEN /\ picked' = picked + 1
              /\ reading' = reading \cup { picked + 1 }
              /\ UNCHANGED errorMessage
         ELSE /\ errorMessage' = FileTypeError
              /\ UNCHANGED << picked, reading >>
    /\ UNCHANGED << isModelLoaded, isAnalyzing, analysisResult, selectedImage, detector,
                    modelPc, imgLoaded, flights, coreVars, lgVars, uiVars, ipcVars, winVars >>

\* reader.onload (lines 209-213).
ReaderLoaded ==
    /\ \E i \in reading :
         /\ selectedImage' = i
         /\ reading' = reading \ { i }
    /\ analysisResult' = NullResult
    /\ errorMessage' = ""
    /\ imgLoaded' = FALSE
    /\ UNCHANGED << isModelLoaded, isAnalyzing, detector, modelPc, picked, flights,
                    coreVars, lgVars, uiVars, ipcVars, winVars >>

\* The img element fires onLoad (line 295): analyzeImage runs to its early
\* return (line 165) or to its await (lines 167-172).
ImgLoaded ==
    /\ selectedImage # 0 /\ ~imgLoaded
    /\ imgLoaded' = TRUE
    /\ IF detector
       THEN /\ isAnalyzing' = TRUE
            /\ errorMessage' = ""
            /\ flights' = flights \cup { selectedImage }
       ELSE UNCHANGED << isAnalyzing, errorMessage, flights >>
    /\ UNCHANGED << isModelLoaded, analysisResult, selectedImage, detector, modelPc,
                    picked, reading, coreVars, lgVars, uiVars, ipcVars, winVars >>

\* detector.estimateFaces settles and analyzeImage runs to its end (lines
\* 172-196). canvasRef.current is null once the canvas is unmounted
\* (selectedImage is null, line 257): canvas.getContext throws a TypeError and
\* the catch block runs.
EstimateSettled ==
    /\ \E i \in flights, est \in LegacyEstimates :
         /\ flights' = flights \ { i }
         /\ CASE est.kind = "none" ->
                   /\ errorMessage' = NoFaceError
                   /\ UNCHANGED analysisResult
              [] est.kind = "reject" ->
                   /\ errorMessage' = AnalysisError
                   /\ UNCHANGED analysisResult
              [] est.kind = "face" /\ selectedImage = 0 ->
                   /\ errorMessage' = AnalysisError
                   /\ UNCHANGED analysisResult
              [] OTHER ->
                   /\ analysisResult' =
                        [kind |-> "value", val |-> calculateFacialMetrics(est.keypoints)]
                   /\ UNCHANGED errorMessage
    /\ isAnalyzing' = FALSE
    /\ UNCHANGED << isModelLoaded, selectedImage, detector, modelPc, picked, reading,
                    imgLoaded, coreVars, lgVars, uiVars, ipcVars, winVars >>

\* resetAnalysis (lines 233-240), from the button of the analysis view (line 302).
resetAnalysis ==
    /\ selectedImage # 0
    /\ selectedImage' = 0
    /\ analysisResult' = NullResult
    /\ errorMessage' = ""
    /\ imgLoaded' = FALSE
    /\ UNCHANGED << isModelLoaded, isAnalyzing, detector, modelPc, picked, reading, flights,
                    coreVars, lgVars, uiVars, ipcVars, winVars >>

\* The legacy App after its mount effect has called loadModel (line 38).
InitLegacyApp ==
    /\ isModelLoaded = FALSE /\ isAnalyzing = FALSE /\ analysisResult = NullResult
    /\ selectedImage = 0 /\ errorMessage = "" /\ detector = FALSE
    /\ modelPc = "loading" /\ picked = 0 /\ reading = {} /\ imgLoaded = FALSE /\ flights = {}
    /\ LM = LMTable
    /\ SfeIdle /\ WsIdle /\ EngIdle /\ AppIdle /\ MpIdle /\ LkIdle /\ LgIdle /\ UiIdle /\ IpcIdle /\ WinIdle

NextLegacyApp ==
    \/ LoadModelDone \/ LoadModelFailed \/ handleImageUpload \/ ReaderLoaded
    \/ ImgLoaded \/ EstimateSettled \/ resetAnalysis

SpecLegacyApp == InitLegacyApp /\ [][NextLegacyApp]_vars

\* Every promise settles and every pending event fires: the model load, the
\* FileReader, the load of the img element and the detector call. The user's
\* own steps (picking a file, resetting) are under no obligation.
FairLegacyApp ==
    /\ SpecLegacyApp
    /\ WF_vars(LoadModelDone \/ LoadModelFailed)
    /\ WF_vars(ReaderLoaded)
    /\ WF_vars(ImgLoaded)
    /\ WF_vars(EstimateSettled)

IpcChannels == { "save-analysis", "load-analysis", "export-results" }

\* The data a renderer sends: a full result, a result without `details`, or
\* nothing.
IpcDataSet == { "full", "noDetails", "undefined" }

IpcFormats == { "pdf", "html", "csv", "txt", "undefined" }

\* ipcRenderer.invoke(channel, data, format) reaches the main process.
IpcInvoke ==
    /\ ipcPc \in { "idle", "settled" } /\ ipcCalls < MaxInvocations
    /\ ipcChannel' \in IpcChannels
    /\ ipcData' \in IpcDataSet
    /\ ipcFormat' \in IpcFormats
    /\ ipcPc' = "called"
    /\ ipcResult' = NoResult
    /\ ipcDialog' = "none" /\ ipcRaised' = "" /\ ipcDisk' = "none"
    /\ ipcCalls' = ipcCalls + 1
    /\ UNCHANGED << coreVars, lgVars, uiVars, legacyVars, winVars >>

\* The handler runs to its first await (lines 430-431, 453-454, 476-498): an
\* error thrown on the way goes to the catch block.
IpcHandlerStart ==
    /\ ipcPc = "called"
    /\ IF ipcChannel = "export-results" /\ ExportThrows(ipcData, ipcFormat)
       THEN /\ ipcResult' = Caught(TypeErrorMessage)
            /\ ipcRaised' = TypeErrorMessage
            /\ ipcPc' = "settled"
       ELSE /\ ipcPc' = "dialog"
            /\ UNCHANGED << ipcResult, ipcRaised >>
    /\ UNCHANGED << ipcChannel, ipcData, ipcFormat, ipcDialog, ipcDisk, ipcCalls,
                    coreVars, lgVars, uiVars, legacyVars, winVars >>

\* dialog.showSaveDialog / showOpenDialog settles: it rejects, it resolves
\* without a path (cancelled), or it resolves with a path and the handler
\* starts the file operation (lines 440-441, 463-464, 507-508).
IpcDialogSettled ==
    /\ ipcPc = "dialog"
    /\ \E d \in { "throw", "cancelled", "chosen" } :
         /\ ipcDialog' = d
         /\ CASE d = "throw" ->
                   /\ ipcResult' = Caught(DialogMessage)
                   /\ ipcRaised' = DialogMessage
                   /\ ipcPc' = "settled"
              [] d = "cancelled" ->
                   /\ ipcResult' = Cancelled
                   /\ ipcPc' = "settled"
                   /\ UNCHANGED ipcRaised
              [] OTHER ->
                   /\ ipcPc' = "file"
                   /\ UNCHANGED << ipcResult, ipcRaised >>
    /\ UNCHANGED << ipcChannel, ipcData, ipcFormat, ipcDisk, ipcCalls,
                    coreVars, lgVars, uiVars, legacyVars, winVars >>

\* fs.writeFile / fs.readFile settles and the handler runs to its end (lines
\* 441-442, 464-465, 508-509); load-analysis parses what it read.
IpcFileSettled ==
    /\ ipcPc = "file"
    /\ \E f \in { "ok", "error" }, text \in { "json", "garbage" } :
         CASE WriteRejectsArgument(ipcChannel, ipcData) ->
                /\ ipcResult' = Caught(ArgTypeMessage)
                /\ ipcRaised' = ArgTypeMessage
                /\ UNCHANGED ipcDisk
           [] f = "error" ->
                /\ ipcResult' = Caught(FileMessage)
                /\ ipcRaised' = FileMessage
                /\ UNCHANGED ipcDisk
           [] ipcChannel = "load-analysis" /\ text = "garbage" ->
                /\ ipcResult' = Caught(SyntaxMessage)
                /\ ipcRaised' = SyntaxMessage
                /\ ipcDisk' = "done"
           [] OTHER ->
                /\ ipcResult' = Succeeded
                /\ ipcDisk' = "done"
                /\ UNCHANGED ipcRaised
    /\ ipcPc' = "settled"
    /\ UNCHANGED << ipcChannel, ipcData, ipcFormat, ipcDialog, ipcCalls,
                    coreVars, lgVars, uiVars, legacyVars, winVars >>

InitIpc ==
    /\ IpcIdle
    /\ LM = LMTable
    /\ SfeIdle /\ WsIdle /\ EngIdle /\ AppIdle /\ MpIdle /\ LkIdle /\ LgIdle /\ UiIdle
    /\ LegacyIdle /\ WinIdle

NextIpc == IpcInvoke \/ IpcHandlerStart \/ IpcDialogSettled \/ IpcFileSettled

SpecIpc == InitIpc /\ [][NextIpc]_vars

\* The menu items with a click handler (lines 299-322, 357-375).
SendItems == { "new-analysis", "save-results", "export-pdf" }

MenuItems == SendItems \cup { "quit", "about", "learn-more" }

\* The window-control channels (lines 547-563).
ControlChannels == { "minimize-window", "maximize-window", "close-window" }

\* createWindow (lines 274-419): a new BrowserWindow, not shown yet; the
\* application menu is built and set.
createWindow ==
    /\ mainWindow' = "window"
    /\ winShown' = FALSE /\ winMinimized' = FALSE /\ winMaximized' = FALSE
    /\ winFocused' = FALSE

\* app.whenReady().then(createWindow)  (line 625)
AppReady ==
    /\ mainWindow = "undefined" /\ ~appQuit
    /\ createWindow
    /\ lastEvent' = "ready" /\ lastOutcome' = "ok"
    /\ UNCHANGED << platform, appQuit, rendererVars >>

\* mainWindow.once('ready-to-show', ...)  (lines 411-413)
ReadyToShow ==
    /\ mainWindow = "window" /\ ~winShown /\ ~appQuit
    /\ winShown' = TRUE /\ winFocused' = TRUE
    /\ lastEvent' = "ready-to-show" /\ lastOutcome' = "ok"
    /\ UNCHANGED << platform, mainWindow, winMinimized, winMaximized, appQuit, rendererVars >>

\* The user minimizes the window or takes the focus from it.
WindowMinimized ==
    /\ mainWindow = "window" /\ winShown /\ ~winMinimized /\ ~appQuit
    /\ winMinimized' = TRUE /\ winFocused' = FALSE
    /\ lastEvent' = "minimize" /\ lastOutcome' = "ok"
    /\ UNCHANGED << platform, mainWindow, winShown, winMaximized, appQuit, rendererVars >>

\* The window is closed: 'closed' sets mainWindow to null (lines 416-418), then
\* 'window-all-closed' quits the app unless the platform is darwin (lines
\* 627-631).
WindowClosed ==
    /\ mainWindow = "window" /\ ~appQuit
    /\ mainWindow' = "null"
    /\ winShown' = FALSE /\ winMinimized' = FALSE /\ winMaximized' = FALSE
    /\ winFocused' = FALSE
    /\ appQuit' = (platform # "darwin")
    /\ lastEvent' = "closed" /\ lastOutcome' = "ok"
    /\ UNCHANGED << platform, rendererVars >>

\* app.on('activate', ...)  (lines 633-637): a new window when none is open.
Activate ==
    /\ platform = "darwin" /\ mainWindow # "undefined" /\ ~appQuit
    /\ IF mainWindow = "null"
       THEN createWindow
       ELSE UNCHANGED << mainWindow, winShown, winMinimized, winMaximized, winFocused >>
    /\ lastEvent' = "activate" /\ lastOutcome' = "ok"
    /\ UNCHANGED << platform, appQuit, rendererVars >>

\* A click on an item of the application menu (lines 299-322, 357-375). The
\* menu is set by createWindow; on darwin it stays when the window is closed.
\* `mainWindow.webContents.send(...)` throws a TypeError when mainWindow is
\* null; dialog.showMessageBox(mainWindow, ...) only passes it on.
MenuClick ==
    /\ mainWindow # "undefined" /\ ~appQuit
    /\ \E item \in MenuItems :
         /\ lastEvent' = item
         /\ lastOutcome' = IF item \in SendItems /\ mainWindow = "null"
                           THEN "TypeError" ELSE "ok"
         /\ appQuit' = (item = "quit")
    /\ UNCHANGED << platform, mainWindow, winShown, winMinimized, winMaximized, winFocused,
                    rendererVars >>

\* ipcMain.on('minimize-window' / 'maximize-window' / 'close-window')  (lines
\* 547-563); close() leads to the 'closed' event later.
WindowControl ==
    /\ mainWindow # "undefined" /\ ~appQuit
    /\ \E channel \in ControlChannels :
         /\ lastEvent' = channel
         /\ winMinimized' = IF mainWindow = "window" /\ channel = "minimize-window"
                            THEN TRUE ELSE winMinimized
         /\ winMaximized' = IF mainWindow = "window" /\ channel = "maximize-window"
                            THEN ~winMaximized ELSE winMaximized
    /\ lastOutcome' = "ok"
    /\ UNCHANGED << platform, mainWindow, winShown, winFocused, appQuit, rendererVars >>

\* app.on('second-instance', ...)  (lines 645-650)
SecondInstance ==
    /\ ~appQuit
    /\ IF mainWindow = "window"
       THEN /\ winMinimized' = FALSE
            /\ winFocused' = TRUE
       ELSE UNCHANGED << winMinimized, winFocused >>
    /\ lastEvent' = "second-instance" /\ lastOutcome' = "ok"
    /\ UNCHANGED << platform, mainWindow, winShown, winMaximized, appQuit, rendererVars >>

InitMain ==
    /\ platform \in { "darwin", "win32" } /\ mainWindow = "undefined"
    /\ winShown = FALSE /\ winMinimized = FALSE /\ winMaximized = FALSE /\ winFocused = FALSE
    /\ appQuit = FALSE /\ lastEvent = "" /\ lastOutcome = "ok"
    /\ LM = LMTable
    /\ SfeIdle /\ WsIdle /\ EngIdle /\ AppIdle /\ MpIdle /\ LkIdle /\ LgIdle /\ UiIdle
    /\ LegacyIdle /\ IpcIdle

NextMain ==
    \/ AppReady \/ ReadyToShow \/ WindowMinimized \/ WindowClosed \/ Activate
    \/ MenuClick \/ WindowControl \/ SecondInstance

SpecMain == InitMain /\ [][NextMain]_vars

\* ------------------------------------------------------------------------
\* Claims
\* ------------------------------------------------------------------------

\* 0 <= x <= 100 (false for NaN).
InRange(x) == Le(Zero, x) /\ Le(x, Num(100, 0))

Analysed == engPc = "done" /\ metrics.kind = "return"

\* C1: for every landmark set that holds all the indices the registry names,
\* with finite coordinates, the four scores computeMetrics returns lie in
\* [0,100], and so does the overall score weightedScore returns for
\* non-negative weights with a positive sum.
C1_ScoresInRange ==
    Analysed =>
        /\ InRange(metrics.val.symmetryScore)
        /\ InRange(metrics.val.goldenScore)
        /\ InRange(metrics.val.fifthsScore)
        /\ InRange(metrics.val.eyeGapScore)
        /\ score.kind = "return"
        /\ InRange(score.val)

\* C1 witness: an analysed face whose scores differ and whose overall score
\* lies strictly between 0 and 100.
C1_Witness ==
    /\ Analysed
    /\ moves > 0
    /\ weights = AppWeights
    /\ metrics.val.symmetryScore = Num(100, 0)
    /\ Lt(metrics.val.goldenScore, Num(100, 0))
    /\ Lt(Zero, metrics.val.goldenScore)
    /\ Lt(Zero, score.val) /\ Lt(score.val, Num(100, 0))

\* The four scores and the overall score are finite numbers.
AllScoresFinite ==
    /\ IsFinite(metrics.val.symmetryScore)
    /\ IsFinite(metrics.val.goldenScore)
    /\ IsFinite(metrics.val.fifthsScore)
    /\ IsFinite(metrics.val.eyeGapScore)
    /\ score.kind = "return"
    /\ IsFinite(score.val)

\* The scores of an analysed face are on the low half of the 0..100 scale.
LowScore == Lt(score.val, Num(50, 0))

\* C6: a landmark set whose face width is 0 does not make the analysis raise,
\* gives no NaN in any metric score or in the overall score, and gives a low,
\* finite overall score (under the application's weights 40/25/20/15).
C6_ZeroFaceWidthLowScore ==
    (engPc = "done" /\ MetricIndices \subseteq DOMAIN landmarks
        /\ IsZero(faceWidthOf(landmarks)) /\ weights = AppWeights) =>
        /\ metrics.kind = "return"
        /\ AllScoresFinite
        /\ LowScore

\* The part of C6 the code does satisfy: no raise and finite scores.
C6_ZeroFaceWidthDefined ==
    (engPc = "done" /\ MetricIndices \subseteq DOMAIN landmarks
        /\ IsZero(faceWidthOf(landmarks))) =>
        /\ metrics.kind = "return"
        /\ AllScoresFinite

\* C7: every denominator of computeMetrics that is below the epsilon 1e-6,
\* and not only one that is exactly 0, is replaced by the epsilon before the
\* division, and no metric value or score is NaN or infinite.
C7_SmallDenominatorReplaced ==
    Analysed =>
        /\ Lt(faceWidthOf(landmarks), Epsilon) =>
              /\ metrics.val.raw.lw = Div(faceLengthOf(landmarks), Epsilon)
              /\ metrics.val.raw.symmetryNorm = Div(symmetryErrOf(landmarks), Epsilon)
        /\ Lt(eyeWOf(landmarks), Epsilon) =>
              /\ metrics.val.raw.eyeGapRatio = Div(innerGapOf(landmarks), Epsilon)
        /\ AllScoresFinite

\* What the code does for C7: exactly-zero denominators are replaced.
C7_ZeroDenominatorReplaced ==
    Analysed =>
        /\ IsZero(faceWidthOf(landmarks)) =>
              /\ metrics.val.raw.lw = Div(faceLengthOf(landmarks), Epsilon)
              /\ metrics.val.raw.symmetryNorm = Div(symmetryErrOf(landmarks), Epsilon)
        /\ IsZero(eyeWOf(landmarks)) =>
              /\ metrics.val.raw.eyeGapRatio = Div(innerGapOf(landmarks), Epsilon)
        /\ AllScoresFinite

\* C8: scoreFromError(0, tolerance) is exactly 100 for every tolerance > 0.
C8_ZeroErrorScores100 ==
    (sfePc = "done" /\ IsZero(sfeErr) /\ Lt(Zero, sfeTol)) =>
        sfeRes = [kind |-> "return", val |-> Num(100, 0)]

\* C8 witness: error 0 scored against the symmetry tolerance 0.04.
C8_Witness ==
    /\ sfePc = "done" /\ IsZero(sfeErr) /\ sfeTol = Num(4, -2)
    /\ sfeRes.val = Num(100, 0)

\* C9: for a fixed tolerance > 0, scoreFromError does not increase when the
\* magnitude of the error grows, and its result is within [0,100].
C9_MonotoneInAbsError ==
    (sfePc = "done" /\ Lt(Zero, sfeTol) /\ Le(MathAbs(sfeErr), MathAbs(sfeErr2))) =>
        /\ Le(sfeRes2.val, sfeRes.val)
        /\ InRange(sfeRes.val)
        /\ InRange(sfeRes2.val)

\* C9 witness: a negative error of smaller magnitude scores strictly higher
\* than a positive error of larger magnitude, both strictly inside (0,100).
C9_Witness ==
    /\ sfePc = "done" /\ Lt(Zero, sfeTol)
    /\ Lt(sfeErr, Zero) /\ Lt(Zero, sfeErr2)
    /\ Lt(MathAbs(sfeErr), sfeErr2)
    /\ Lt(sfeRes2.val, sfeRes.val)
    /\ Lt(Zero, sfeRes2.val) /\ Lt(sfeRes.val, Num(100, 0))

SpecKeys == { "symmetry", "proportion", "fifths", "eyeGap" }

\* sum(score_i * weight_i) / sum(weight_i) over the four metrics, the
\* proportion weight read under the key goldenKey.
WeightedAverage(m, w, goldenKey) ==
    Div(Add(Add(Add(Mul(m.symmetryScore, w["symmetry"]), Mul(m.goldenScore, w[goldenKey])),
                Mul(m.fifthsScore, w["fifths"])),
            Mul(m.eyeGapScore, w["eyeGap"])),
        Add(Add(Add(w["symmetry"], w[goldenKey]), w["fifths"]), w["eyeGap"]))

WeightedDone == wsPc = "done" /\ wsWeights.given

PositiveSum(w) == Lt(Zero, SumValues(w, 1, Zero))

\* C2 (as stated): for non-negative weights with a positive sum under the keys
\* symmetry, proportion, fifths, eyeGap, the overall score is
\* sum(score_i * weight_i) / sum(weight_i).
C2_AverageOverSpecKeys ==
    (WeightedDone /\ DOMAIN wsWeights.obj = SpecKeys /\ PositiveSum(wsWeights.obj)) =>
        wsRes = [kind |-> "return",
                 val  |-> WeightedAverage(wsMetrics, wsWeights.obj, "proportion")]

\* C2 (amended): the keys weightedScore reads are symmetry, golden, fifths,
\* eyeGap; for non-negative weights with a positive sum under these keys the
\* overall score is sum(score_i * weight_i) / sum(weight_i).
C2_AverageOverCodeKeys ==
    (WeightedDone /\ DOMAIN wsWeights.obj = CodeKeys /\ PositiveSum(wsWeights.obj)) =>
        wsRes = [kind |-> "return",
                 val  |-> WeightedAverage(wsMetrics, wsWeights.obj, "golden")]

\* C2 witness: scores 100, 0, 100, 0 under the weights 40/25/20/15 give 60.
C2_Witness ==
    /\ WeightedDone /\ wsWeights.obj = AppWeights
    /\ wsMetrics.symmetryScore = Num(100, 0) /\ wsMetrics.goldenScore = Zero
    /\ wsMetrics.fifthsScore = Num(100, 0) /\ wsMetrics.eyeGapScore = Zero
    /\ wsRes = [kind |-> "return", val |-> Num(60, 0)]

\* The values of the configuration sum to 0 (the empty configuration included).
ZeroSum(wa) == wa.given /\ IsZero(SumValues(wa.obj, 1, Zero))

DefaultedWeights(wa) ==
    [key \in CodeKeys |->
        IF wa.given /\ key \in DOMAIN wa.obj THEN wa.obj[key] ELSE AppWeights[key]]

\* C4: when no configuration is given, or one that lacks some of the four
\* keys, the missing weights default to 40, 25, 20, 15 and the overall score
\* is the weighted average under the completed configuration.
C4_MissingWeightsDefaulted ==
    (wsPc = "done" /\ (~wsWeights.given \/ ( /\ DOMAIN wsWeights.obj \subseteq CodeKeys
                                              /\ DOMAIN wsWeights.obj # CodeKeys ))) =>
        wsRes = [kind |-> "return",
                 val  |-> WeightedAverage(wsMetrics, DefaultedWeights(wsWeights), "golden")]

\* The configuration restricted to the keys in S.
Restrict(w, S) == [key \in DOMAIN w \cap S |-> w[key]]

\* C5: a key other than the four the aggregation reads is ignored: a full
\* configuration with such a key gives the overall score it gives without it.
C5_UnrecognizedKeysIgnored ==
    (WeightedDone /\ DOMAIN wsWeights.obj = CodeKeys \cup { "extra" }) =>
        wsRes = weightedScore(wsMetrics, WeightsArg(Restrict(wsWeights.obj, CodeKeys)))

\* The mantissa and the exponent of a finite non-zero value without trailing
\* zeros: x = StripM(x) * 10^StripE(x), StripM(x) not a multiple of 10.
StripShift(x) ==
    IF x.m % 1000 = 0 THEN 3 ELSE IF x.m % 100 = 0 THEN 2 ELSE IF x.m % 10 = 0 THEN 1 ELSE 0

StripM(x) == x.m \div Pow10(StripShift(x))

StripE(x) == x.e + StripShift(x)

\* a + b = 2 * c as real numbers, for finite a, b, c. The three values are
\* compared as integers in units of the smallest exponent among them; values
\* more than five decimal places apart cannot satisfy the equation with
\* four-digit mantissas.
ExactMidpoint(a, b, c) ==
    LET nz == { v \in { a, b, c } : ~IsZero(v) }
    IN  IF nz = {} THEN TRUE
        ELSE LET e0     == CHOOSE e \in { StripE(v) : v \in nz } :
                               \A v \in nz : e <= StripE(v)
                 far    == \E v \in nz : StripE(v) - e0 > 5
                 Units(v) == IF IsZero(v) THEN 0 ELSE StripM(v) * Pow10(StripE(v) - e0)
             IN  ~far /\ Units(a) + Units(b) = 2 * Units(c)

\* The left point l is the exact mirror of the right point r about x = axis.
MirrorPair(lms, axis, l, r) ==
    /\ lms[l].y = lms[r].y
    /\ ExactMidpoint(lms[l].x, lms[r].x, axis)

\* Each left feature point (eye outer and inner corner, brow midpoint, nostril
\* wing) is the exact mirror of its right counterpart about the midpoint of
\* the two eye centroids.
BilaterallySymmetric(lms) ==
    \E axis \in { midlineXOf(lms) } :
        /\ IsFinite(axis)
        /\ MirrorPair(lms, axis, 33, 263)
        /\ MirrorPair(lms, axis, 133, 362)
        /\ MirrorPair(lms, axis, 55, 285)
        /\ MirrorPair(lms, axis, 97, 326)

\* C11: a landmark set in which each left feature point is the exact mirror of
\* its right counterpart about x = midpoint of the two eye centroids has the
\* symmetry score 100.
C11_SymmetricScores100 ==
    (Analysed /\ BilaterallySymmetric(landmarks)) =>
        metrics.val.symmetryScore = Num(100, 0)

\* C11 witness: a mirror-symmetric face that is not one of the base faces,
\* with a face width other than 0, analysed with symmetry score 100.
C11_Witness ==
    /\ Analysed /\ moves > 0
    /\ BilaterallySymmetric(landmarks)
    /\ ~IsZero(faceWidthOf(landmarks))
    /\ metrics.val.symmetryScore = Num(100, 0)
    /\ Lt(metrics.val.goldenScore, Num(100, 0))

\* faceLength / faceWidth as the claim defines the two: 1.4 times the distance
\* from the nose bridge top (168) to the chin (152), over the distance between
\* the face-width boundary points (234, 454).
ClaimedLengthToWidth(lms) ==
    Div(Mul(Num(14, -1), dist(PointAt(lms, 168), PointAt(lms, 152))),
        dist(PointAt(lms, 234), PointAt(lms, 454)))

\* C12: a landmark set with faceLength / faceWidth = 1.618 has the proportion
\* score 100.
C12_GoldenRatioScores100 ==
    (Analysed /\ ClaimedLengthToWidth(landmarks) = Num(1618, -3)) =>
        metrics.val.goldenScore = Num(100, 0)

\* C12 witness: a face other than the base faces with the ratio 1.618, analysed
\* with proportion score 100 and another score below 100.
C12_Witness ==
    /\ Analysed /\ moves > 0
    /\ ClaimedLengthToWidth(landmarks) = Num(1618, -3)
    /\ metrics.val.goldenScore = Num(100, 0)
    /\ Lt(metrics.val.eyeGapScore, Num(100, 0))

\* The four weights the code reads are present, equal and positive.
EqualPositiveWeights(w) ==
    /\ DOMAIN w = CodeKeys
    /\ \A key \in CodeKeys : w[key] = w["symmetry"]
    /\ Lt(Zero, w["symmetry"])

\* The unweighted arithmetic mean of the four metric scores.
MeanOfScores(m) ==
    Div(Add(Add(Add(m.symmetryScore, m.goldenScore), m.fifthsScore), m.eyeGapScore),
        Num(4, 0))

\* C13: with four equal positive weights the overall score is the arithmetic
\* mean of the four metric scores, whatever the scores are.
C13_EqualWeightsGiveMean ==
    (WeightedDone /\ EqualPositiveWeights(wsWeights.obj)) =>
        wsRes = [kind |-> "return", val |-> MeanOfScores(wsMetrics)]

\* C13 witness: scores 100, 0, 0, 0 under four weights of 7 give 25.
C13_Witness ==
    /\ WeightedDone /\ EqualPositiveWeights(wsWeights.obj)
    /\ wsWeights.obj["fifths"] = Num(7, 0)
    /\ wsMetrics.symmetryScore = Num(100, 0) /\ wsMetrics.goldenScore = Zero
    /\ wsMetrics.fifthsScore = Zero /\ wsMetrics.eyeGapScore = Zero
    /\ wsRes = [kind |-> "return", val |-> Num(25, 0)]

\* The engine call just made has the landmark set and the weights of the
\* first engine call of the run.
SameInputsAsFirstCall ==
    /\ engPc = "done" /\ seen.kind = "call"
    /\ seen.landmarks = landmarks /\ seen.weights = weights

LacksIndex(lms) == ~(MetricIndices \subseteq DOMAIN lms)

\* C15: when the landmark set lacks an index the registry refers to, the
\* analysis ends in an error and leaves no partial result: computeMetrics
\* throws and returns no metrics object, weightedScore is not called, and
\* analyze sets neither the metrics nor the score state, which stay null.
C15_MissingIndexNoPartialResult ==
    (engPc = "done" /\ LacksIndex(landmarks)) =>
        /\ metrics = [kind |-> "TypeError", val |-> NoMetrics]
        /\ score = NoOutcome
        /\ appMetrics = NullMetrics
        /\ appScore = NullScore

\* C15 witness: after an analysis that returned, the analysis of an image
\* whose mesh ends before the index 454 throws.
C15_Witness ==
    /\ engPc = "done" /\ LacksIndex(landmarks) /\ calls > 1
    /\ seen.kind = "call" /\ seen.metrics.kind = "return"
    /\ 263 \in DOMAIN landmarks
    /\ metrics.kind = "TypeError" /\ appMetrics = NullMetrics

\* C16: the landmark registry is never mutated: after any sequence of analyses
\* (computeMetrics, weightedScore, draw) every feature name of LM maps to the
\* landmark indices it had at module load.
C16_RegistryNeverMutated == LM = LMTable

\* C16 witness: three analyses were made, the last one returned, and the eye
\* contours of the registry are the arrays of the module's source.
C16_Witness ==
    /\ calls = 3 /\ engPc = "done" /\ metrics.kind = "return"
    /\ LM.leftEye = << 33, 133, 159, 145, 153, 144 >>
    /\ LM.rightEye = << 362, 263, 386, 374, 380, 373 >>

MeanOfTwoPoints ==
    (mpPc = "done" /\ mpPoints = << << Num(50, 0), Zero >>, << Zero, Zero >> >>) =>
        mpRes.val = << Num(25, 0), Zero >>

KnownNameReadReturns ==
    (lkPc = "done" /\ lkName \in DOMAIN LM /\ DOMAIN landmarks = DOMAIN IdealFace) =>
        lkRes.kind = "return"

\* The horizontal extent of an eye contour: largest minus smallest x over the
\* six contour points idxs.
ContourExtent(lms, idxs) ==
    LET xs == [j \in 1..6 |-> lms[idxs[j]].x]
        hi == MathMax(MathMax(MathMax(MathMax(MathMax(xs[1], xs[2]), xs[3]), xs[4]), xs[5]), xs[6])
        lo == MathMin(MathMin(MathMin(MathMin(MathMin(xs[1], xs[2]), xs[3]), xs[4]), xs[5]), xs[6])
    IN  Sub(hi, lo)

LeftEyeContour == << 33, 133, 159, 145, 153, 144 >>

RightEyeContour == << 362, 263, 386, 374, 380, 373 >>

\* The average of the two contour extents.
AverageContourExtent(lms) ==
    Div(Add(ContourExtent(lms, LeftEyeContour), ContourExtent(lms, RightEyeContour)),
        Num(2, 0))

\* The horizontal distance of an eye's outer corner to its inner corner.
CornerWidth(lms, outer, inner) == MathAbs(Sub(lms[outer].x, lms[inner].x))

\* The average of the two corner widths.
AverageCornerWidth(lms) ==
    Div(Add(CornerWidth(lms, 33, 133), CornerWidth(lms, 263, 362)), Num(2, 0))

\* The synthetic scenario: faceWidth 100, faceLength 161.8, left and right
\* points perfect mirrors, each eye 20 wide (by its contour and by its
\* corners), inner-corner gap 20, the default weights.
SyntheticScenario ==
    /\ dist(PointAt(landmarks, 234), PointAt(landmarks, 454)) = Num(100, 0)
    /\ Mul(Num(14, -1), dist(PointAt(landmarks, 168), PointAt(landmarks, 152))) = Num(1618, -1)
    /\ BilaterallySymmetric(landmarks)
    /\ ContourExtent(landmarks, LeftEyeContour) = Num(20, 0)
    /\ ContourExtent(landmarks, RightEyeContour) = Num(20, 0)
    /\ CornerWidth(landmarks, 33, 133) = Num(20, 0)
    /\ CornerWidth(landmarks, 263, 362) = Num(20, 0)
    /\ dist(PointAt(landmarks, 133), PointAt(landmarks, 362)) = Num(20, 0)
    /\ weights = AppWeights

\* Within 0.1 of 100.
AboutHundred(x) == Le(Num(999, -1), x) /\ Le(x, Num(1001, -1))

\* C19: for the synthetic scenario the proportion, eye-gap, symmetry and
\* fifths scores are about 100, the fifths ratio is 5, and the overall score
\* under the default weights is about 100.
C19_SyntheticScenarioScores100 ==
    (Analysed /\ SyntheticScenario) =>
        /\ AboutHundred(metrics.val.goldenScore)
        /\ AboutHundred(metrics.val.eyeGapScore)
        /\ AboutHundred(metrics.val.symmetryScore)
        /\ metrics.val.raw.fifths = Num(5, 0)
        /\ AboutHundred(metrics.val.fifthsScore)
        /\ score.kind = "return" /\ AboutHundred(score.val)

\* C19 witness: a face of the scenario that differs from the base face in a
\* contour point, analysed with an overall score of 100.
C19_Witness ==
    /\ Analysed /\ SyntheticScenario /\ landmarks # IdealFace
    /\ score.val = Num(100, 0)

\* C20 (as stated): the rule-of-fifths ratio is faceWidth / averageEyeWidth and
\* the eye-gap ratio is innerCornerDistance / averageEyeWidth, where an eye's
\* width is the horizontal extent of its six contour points (a denominator of
\* 0 replaced by 1e-6 as the code does).
C20_RatiosUseContourExtent ==
    Analysed =>
        /\ metrics.val.raw.fifths =
              Div(OrElse(dist(PointAt(landmarks, 234), PointAt(landmarks, 454)), Epsilon),
                  OrElse(AverageContourExtent(landmarks), Epsilon))
        /\ metrics.val.raw.eyeGapRatio =
              Div(dist(PointAt(landmarks, 133), PointAt(landmarks, 362)),
                  OrElse(AverageContourExtent(landmarks), Epsilon))

\* C20 (amended): an eye's width is the horizontal distance between its outer
\* and its inner corner; the average of the two widths is the denominator of
\* the rule-of-fifths ratio and of the eye-gap ratio.
C20_RatiosUseCornerWidth ==
    Analysed =>
        /\ metrics.val.raw.fifths =
              Div(OrElse(dist(PointAt(landmarks, 234), PointAt(landmarks, 454)), Epsilon),
                  OrElse(AverageCornerWidth(landmarks), Epsilon))
        /\ metrics.val.raw.eyeGapRatio =
              Div(dist(PointAt(landmarks, 133), PointAt(landmarks, 362)),
                  OrElse(AverageCornerWidth(landmarks), Epsilon))

\* C20 witness: a contour point lies outside the corners of its eye, so the
\* contour extent and the corner width differ, and the two eyes differ in
\* width.
C20_Witness ==
    /\ Analysed
    /\ AverageContourExtent(landmarks) # AverageCornerWidth(landmarks)
    /\ CornerWidth(landmarks, 33, 133) # CornerWidth(landmarks, 263, 362)
    /\ IsFinite(metrics.val.raw.fifths) /\ ~IsZero(metrics.val.raw.fifths)

\* The keypoints a and b of the measured distance lie on one point.
Coincide(kp, a, b) == kp[a] = kp[b]

LegacyClamped(x) == Le(Num(60, 0), x) /\ Le(x, Num(95, 0))

\* C21: the overallScore returned by the legacy calculateFacialMetrics lies
\* between 60 and 95 for every landmark set, also when measured points
\* coincide (zero face width, zero face height, zero eye-to-nose distance).
C21_LegacyScoreClamped ==
    lgPc = "done" => LegacyClamped(lgRes.val.overallScore)

\* The overallScore is between 60 and 95, or it is NaN; it is NaN when both
\* eyes lie on the nose tip, when face height and face width are both zero,
\* and when eye distance and mouth width are both zero.
C21_LegacyScoreClampedOrNaN ==
    lgPc = "done" =>
      /\ LegacyClamped(lgRes.val.overallScore) \/ IsNaN(lgRes.val.overallScore)
      /\ IsNaN(lgRes.val.overallScore) <=>
           \/ Coincide(lgKeypoints, 33, 1) /\ Coincide(lgKeypoints, 263, 1)
           \/ Coincide(lgKeypoints, 10, 152) /\ Coincide(lgKeypoints, 234, 454)
           \/ Coincide(lgKeypoints, 33, 263) /\ Coincide(lgKeypoints, 61, 291)

\* A zero face width alone leaves the score clamped.
C21_ZeroWidthClamped ==
    /\ lgPc = "done"
    /\ Coincide(lgKeypoints, 234, 454) /\ ~Coincide(lgKeypoints, 10, 152)
    /\ LegacyClamped(lgRes.val.overallScore)

\* metrics or score holds a value.
ResultShown == appMetrics.kind # "null" \/ appScore.kind # "null"

\* C22: the displayed result belongs to the currently selected image: after
\* handleFile or Reset, metrics and score stay null until an analyze call
\* started after that event completes; a detector call in flight for the
\* previous image never sets them, and metrics is never set while imgSrc is
\* null.
C22_ResultOfCurrentImage ==
    ResultShown => imgSrc # 0 /\ shownImg = imgSrc

\* A shown result is always the result of an image that was chosen, and
\* metrics and score are set and reset together.
C22_ResultOfSomeImage ==
    /\ ResultShown => shownImg \in 1..files
    /\ appMetrics.kind = "null" <=> appScore.kind = "null"

\* The image i is on display and has loaded.
ImageLoaded(i) == selectedImage = i /\ imgLoaded

\* The image i is on display with a result or an error message, and no
\* analysis is announced as running.
Answered(i) ==
    /\ selectedImage = i
    /\ analysisResult.kind = "value" \/ errorMessage # ""
    /\ ~isAnalyzing

\* C23: in the legacy App every selected image is eventually answered: once
\* the image has loaded, eventually analysisResult is set or a non-empty
\* errorMessage is shown, with isAnalyzing false again, in whatever order the
\* model load and the image load complete (unless the user leaves the image).
C23_LoadedImageAnswered ==
    \A i \in 1..MaxPicks : ImageLoaded(i) ~> (Answered(i) \/ selectedImage # i)

\* An image whose load started a detector call is answered.
C23_AnalysedImageAnswered ==
    \A i \in 1..MaxPicks :
       (ImageLoaded(i) /\ i \in flights) ~> (Answered(i) \/ selectedImage # i)

\* An image that loaded while the detector was not set is never analysed.
C23_LoadedBeforeModelIgnored ==
    [][ImgLoaded /\ ~detector => UNCHANGED << isAnalyzing, analysisResult, errorMessage, flights >>]_vars

\* C24: the save-analysis, load-analysis and export-results handlers never
\* reject: every invocation resolves to an object with a success flag; success
\* is true only after the file write or read has completed; a cancelled dialog
\* yields {success: false, cancelled: true}; an error raised during the dialog
\* or the file operation yields {success: false, error}.
C24_HandlersNeverReject ==
    /\ ipcResult.settled # "rejected"
    /\ ipcPc = "settled" =>
         /\ ipcResult.settled = "resolved"
         /\ ipcResult.success => ipcDisk = "done" /\ ipcRaised = ""
         /\ ipcDialog = "cancelled" => ipcResult = Cancelled
         /\ ipcRaised # "" => ipcResult = Caught(ipcRaised)

\* An invocation has settled after an error of the file operation.
C24_Witness ==
    /\ ipcPc = "settled" /\ ipcDialog = "chosen"
    /\ ipcRaised = FileMessage /\ ipcResult.kind = "error"

\* An invocation has settled with success after its file operation.
C24_SuccessReached == ipcPc = "settled" /\ ipcResult.success /\ ipcDisk = "done"

\* C25: mainWindow is never dereferenced while it is null: after 'closed' has
\* set it to null, window-control messages, menu item clicks and
\* second-instance events are no-ops and do not throw.
C25_NoNullDereference == lastOutcome # "TypeError"

\* Only the three menu items that send to the renderer throw, and only while
\* mainWindow is null on darwin; the window controls, second-instance and the
\* other menu items do not.
C25_OnlySendItemsThrow ==
    lastOutcome = "TypeError" =>
      lastEvent \in SendItems /\ mainWindow = "null" /\ platform = "darwin"

\* A window-control message handled while mainWindow is null.
C25_ControlWhileNull ==
    lastEvent \in ControlChannels /\ mainWindow = "null" /\ lastOutcome = "ok"

====
